---------------------------- MODULE Spec2Model ----------------------------
(***************************************************************************)
(* Model of the disk-metrics collector (scripts/collect_disk_metrics.py,   *)
(* scripts/client.py).  One pass enumerates the disks, runs the probes of  *)
(* every disk in the order of the main block, back-fills the record and    *)
(* hands it to write_csv and send_metrics_to_server.                       *)
(*                                                                         *)
(* Text is modelled as text: a tool output is the sequence of its lines    *)
(* (what str.splitlines returns), a line is a string, and split, strip,    *)
(* startswith, `in`, replace, int() and float() are computed character by  *)
(* character.  A Python float is a decimal number: mantissa n and number   *)
(* of decimals e, normalised (no trailing zero in the fraction).           *)
(***************************************************************************)
EXTENDS Integers, Sequences, FiniteSets, TLC

(***************************************************************************)
(* Bounds of the model.                                                    *)
(***************************************************************************)
MaxDisks == 2      \* longest list of disks lsblk reports
MaxFaults == 1     \* probe calls of one pass that see a non-nominal tool run
MaxWrites == 4     \* write_csv calls of the store specification
MaxSwaps == 1      \* exchanges of two columns applied to an iostat table
MaxEntries == 2    \* longest SMART attribute table given to parse_smart_metrics
MaxWorkers == 3    \* workers that call write_csv at the same time
MaxLines == 3      \* longest netstat output given to a netstat probe

(***************************************************************************)
(* Strings.                                                                *)
(***************************************************************************)
Ch(s, i) == SubSeq(s, i, i)

DigitChars == "0123456789"

IsDigit(c) == \E i \in 1..Len(DigitChars) : Ch(DigitChars, i) = c

DigitVal(c) == (CHOOSE i \in 1..Len(DigitChars) : Ch(DigitChars, i) = c) - 1

IsSpace(c) == c \in {" ", "\t"}

\* str.startswith
startswith(s, p) == Len(p) <= Len(s) /\ SubSeq(s, 1, Len(p)) = p

\* `sub in s` for strings
contains(s, sub) ==
    \E i \in 1..(Len(s) - Len(sub) + 1) : SubSeq(s, i, i + Len(sub) - 1) = sub

\* str.split() : the whitespace-delimited tokens; cur is the token being
\* read at position i, acc the tokens read
split(s) ==
    LET RECURSIVE SplitFrom(_, _, _)
        SplitFrom(i, cur, acc) ==
            IF i > Len(s)
            THEN IF Len(cur) = 0 THEN acc ELSE Append(acc, cur)
            ELSE IF IsSpace(Ch(s, i))
                 THEN SplitFrom(i + 1, "",
                                IF Len(cur) = 0 THEN acc ELSE Append(acc, cur))
                 ELSE SplitFrom(i + 1, cur \o Ch(s, i), acc)
    IN  SplitFrom(1, "", <<>>)

\* str.split(sep) for a one-character separator: empty pieces are kept
split_sep(s, sep) ==
    LET RECURSIVE SplitSepFrom(_, _, _)
        SplitSepFrom(i, cur, acc) ==
            IF i > Len(s)
            THEN Append(acc, cur)
            ELSE IF Ch(s, i) = sep
                 THEN SplitSepFrom(i + 1, "", Append(acc, cur))
                 ELSE SplitSepFrom(i + 1, cur \o Ch(s, i), acc)
    IN  SplitSepFrom(1, "", <<>>)

\* str.strip()
strip(s) ==
    LET RECURSIVE LStrip(_)
        LStrip(t) == IF Len(t) > 0 /\ IsSpace(Ch(t, 1)) THEN LStrip(Tail(t)) ELSE t
        RECURSIVE RStrip(_)
        RStrip(t) ==
            IF Len(t) > 0 /\ IsSpace(Ch(t, Len(t)))
            THEN RStrip(SubSeq(t, 1, Len(t) - 1))
            ELSE t
    IN  RStrip(LStrip(s))

\* str.replace(old, new), old not empty
replace(s, old, new) ==
    LET RECURSIVE ReplaceFrom(_, _)
        ReplaceFrom(i, acc) ==
            IF i > Len(s)
            THEN acc
            ELSE IF i + Len(old) - 1 <= Len(s) /\ SubSeq(s, i, i + Len(old) - 1) = old
                 THEN ReplaceFrom(i + Len(old), acc \o new)
                 ELSE ReplaceFrom(i + 1, acc \o Ch(s, i))
    IN  ReplaceFrom(1, "")

RECURSIVE Join(_)
\* " ".join(toks)
Join(toks) ==
    IF Len(toks) = 0 THEN ""
    ELSE IF Len(toks) = 1 THEN toks[1]
    ELSE toks[1] \o " " \o Join(Tail(toks))

\* list.index: position of the first element equal to x, 0 when absent
\* (Python raises ValueError); positions count from 1
IndexOf(seq, x) ==
    IF \E i \in 1..Len(seq) : seq[i] = x
    THEN CHOOSE i \in 1..Len(seq) : seq[i] = x /\ \A j \in 1..(i - 1) : seq[j] # x
    ELSE 0

(***************************************************************************)
(* Numbers.                                                                *)
(***************************************************************************)
RECURSIVE DigitsValue(_, _)
DigitsValue(s, acc) ==
    IF Len(s) = 0 THEN acc ELSE DigitsValue(Tail(s), 10 * acc + DigitVal(Ch(s, 1)))

\* str.isdigit()
isdigit(s) == Len(s) > 0 /\ \A i \in 1..Len(s) : IsDigit(Ch(s, i))

\* re.match(r"^\d+", s): the leading run of digits, "" when there is no match
LeadingDigits(s) ==
    LET RECURSIVE LeadingDigitsLen(_)
        LeadingDigitsLen(i) ==
            IF i <= Len(s) /\ IsDigit(Ch(s, i)) THEN LeadingDigitsLen(i + 1) ELSE i - 1
    IN  SubSeq(s, 1, LeadingDigitsLen(1))

RECURSIVE IntToStr(_)
\* str(n) for an integer
IntToStr(n) ==
    IF n < 0 THEN "-" \o IntToStr(0 - n)
    ELSE IF n < 10 THEN Ch(DigitChars, n + 1)
    ELSE IntToStr(n \div 10) \o Ch(DigitChars, (n % 10) + 1)

\* int(s): surrounding blanks and one sign are accepted; ok = FALSE stands
\* for ValueError
ParseInt(s) ==
    LET Signed(t) == Len(t) > 0 /\ Ch(t, 1) \in {"+", "-"}
        Parse(t, body) ==
            IF isdigit(body)
            THEN [ok |-> TRUE,
                  n |-> IF Ch(t, 1) = "-"
                        THEN 0 - DigitsValue(body, 0) ELSE DigitsValue(body, 0)]
            ELSE [ok |-> FALSE, n |-> 0]
        Unsigned(t) == Parse(t, IF Signed(t) THEN Tail(t) ELSE t)
    IN  Unsigned(strip(s))

RECURSIVE Normalise(_, _)
Normalise(n, e) ==
    IF e > 0 /\ n % 10 = 0 THEN Normalise(n \div 10, e - 1) ELSE [n |-> n, e |-> e]

\* float(s) for plain decimal notation: [sign] digits [. digits], at least
\* one digit; ok = FALSE stands for ValueError
ParseFloat(s) ==
    LET Signed(t) == Len(t) > 0 /\ Ch(t, 1) \in {"+", "-"}
        Value(negative, nrm) ==
            [ok |-> TRUE, n |-> IF negative THEN 0 - nrm.n ELSE nrm.n, e |-> nrm.e]
        Parts(t, ip, fp) ==
            IF /\ Len(ip) + Len(fp) > 0
               /\ \A i \in 1..Len(ip) : IsDigit(Ch(ip, i))
               /\ \A i \in 1..Len(fp) : IsDigit(Ch(fp, i))
            THEN Value(Ch(t, 1) = "-", Normalise(DigitsValue(ip \o fp, 0), Len(fp)))
            ELSE [ok |-> FALSE, n |-> 0, e |-> 0]
        Pieces(t, pieces) ==
            IF Len(pieces) > 2 THEN [ok |-> FALSE, n |-> 0, e |-> 0]
            ELSE Parts(t, pieces[1], IF Len(pieces) = 2 THEN pieces[2] ELSE "")
        Unsigned(t) == Pieces(t, split_sep(IF Signed(t) THEN Tail(t) ELSE t, "."))
    IN  Unsigned(strip(s))

(***************************************************************************)
(* Python values held by a record field or returned by a probe.  Every     *)
(* value has the same four fields so that any two values can be compared.  *)
(***************************************************************************)
IntV(n) == [t |-> "int", n |-> n, e |-> 0, s |-> ""]

FloatV(n, e) == [t |-> "float", n |-> n, e |-> e, s |-> ""]

StrV(s) == [t |-> "str", n |-> 0, e |-> 0, s |-> s]

NoneV == [t |-> "None", n |-> 0, e |-> 0, s |-> ""]

\* a key that a JSON object does not have
Missing == [t |-> "missing", n |-> 0, e |-> 0, s |-> ""]

RECURSIVE Pow10(_)
Pow10(k) == IF k = 0 THEN 1 ELSE 10 * Pow10(k - 1)

MaxOf(a, b) == IF a >= b THEN a ELSE b

\* a + b for numbers: an int only when both are ints
NumAdd(a, b) ==
    LET Sum(nrm) == FloatV(nrm.n, nrm.e)
        At(e) == Sum(Normalise(a.n * Pow10(e - a.e) + b.n * Pow10(e - b.e), e))
    IN  IF a.t = "int" /\ b.t = "int" THEN IntV(a.n + b.n) ELSE At(MaxOf(a.e, b.e))

\* a - b for numbers
NumSub(a, b) == NumAdd(a, [b EXCEPT !.n = 0 - b.n])

NumLess(a, b) == a.n * Pow10(MaxOf(a.e, b.e) - a.e) < b.n * Pow10(MaxOf(a.e, b.e) - b.e)

\* a / k for a positive integer k, always a float; exact when k divides the
\* mantissa, else cut after four more decimals
NumDivInt(a, k) ==
    LET Quotient(nrm) == FloatV(nrm.n, nrm.e)
    IN  Quotient(IF a.n % k = 0
                 THEN Normalise(a.n \div k, a.e)
                 ELSE Normalise((a.n * 10000) \div k, a.e + 4))

\* a conversion without the second attempt: float(value), else 0.0
FloatOrZero(value) ==
    LET First(first) == IF first.ok THEN FloatV(first.n, first.e) ELSE FloatV(0, 0)
    IN  First(ParseFloat(value))

\* safe_float_conversion: float(value), else float(value with "," as "."),
\* else 0.0
safe_float_conversion(value) ==
    LET Second(second) == IF second.ok THEN FloatV(second.n, second.e) ELSE FloatV(0, 0)
        First(first) ==
            IF first.ok THEN FloatV(first.n, first.e)
            ELSE Second(ParseFloat(replace(value, ",", ".")))
    IN  First(ParseFloat(value))

(***************************************************************************)
(* Dictionaries: functions whose domain is the set of keys.                *)
(***************************************************************************)
EmptyDict == [k \in {} |-> NoneV]

\* d[key] = v
DictPut(d, key, v) == [k \in (DOMAIN d) \cup {key} |-> IF k = key THEN v ELSE d[k]]

\* d.get(key, default)
DictGet(d, key, default) == IF key \in DOMAIN d THEN d[key] ELSE default

\* the result of a call that may raise
Returned(v) == [raised |-> FALSE, val |-> v]

Raised == [raised |-> TRUE, val |-> NoneV]

\* the run of an external command: rc is "ok", "nonzero" (CalledProcessError)
\* or "oserror" (the command could not be started); out is its output
Run(rc, out) == [rc |-> rc, out |-> out]

(***************************************************************************)
(* The schema of the main block.                                           *)
(***************************************************************************)
\* the keys of smart_attributes, in the order the dictionary literal lists them
smart_attributes ==
    <<"1", "3", "4", "5", "7", "9", "10", "12", "187", "188", "191", "192",
      "193", "194", "198", "199">>

required_ids == {smart_attributes[i] : i \in 1..Len(smart_attributes)}

RECURSIVE SortedByInt(_)

\* the keys ordered as text, "10" before "3": the variant of SortedByInt
\* without key=int
SortedAsText(keys) ==
    LET RECURSIVE TextLess(_, _)
        TextLess(a, b) ==
            IF Len(b) = 0 THEN FALSE
            ELSE IF Len(a) = 0 THEN TRUE
            ELSE IF Ch(a, 1) # Ch(b, 1) THEN DigitVal(Ch(a, 1)) < DigitVal(Ch(b, 1))
            ELSE TextLess(Tail(a), Tail(b))
        RECURSIVE Sorted(_)
        Sorted(ks) ==
            IF ks = {} THEN <<>>
            ELSE LET least == CHOOSE k \in ks : \A o \in ks \ {k} : TextLess(k, o)
                 IN  <<least>> \o Sorted(ks \ {least})
    IN  Sorted(keys)

\* sorted(keys, key=int): repeatedly take the key of least integer value
SortedByInt(keys) ==
    IF keys = {} THEN <<>>
    ELSE LET Least(ks) == CHOOSE k \in ks :
                              \A o \in ks : ParseInt(k).n <= ParseInt(o).n
             From(least) == <<least>> \o SortedByInt(keys \ {least})
         IN  From(Least(keys))

FixedFields ==
    <<"date", "serial_number", "model", "disk_status",
      "io_queue_size", "read_throughput", "read_queue_time",
      "read_qps", "write_qps",
      "write_queue_time", "write_throughput",
      "disk_max_util", "disk_avg_util", "tcp_outsegs",
      "page_in", "page_out", "total_disk_read_kb",
      "total_disk_write_kb", "mem_res", "cpu_kernel",
      "udp_outdatagrams", "udp_indatagrams",
      "net_pps_receive", "net_pps_transmit",
      "receive_speed", "tcp_currestab">>

NormKey(id) == "smart_" \o id \o "_normalized"

RawKey(id) == "smart_" \o id \o "_raw"

RECURSIVE SmartColumns(_, _)
SmartColumns(ids, i) ==
    IF i > Len(ids) THEN <<>>
    ELSE <<NormKey(ids[i]), RawKey(ids[i])>> \o SmartColumns(ids, i + 1)

\* the list the main block builds before the device loop
fieldnames == FixedFields \o SmartColumns(SortedByInt(required_ids), 1)

FieldSet == {fieldnames[i] : i \in 1..Len(fieldnames)}

(***************************************************************************)
(* SMART.  A JSON document of `smartctl -A -j` is the record               *)
(*   [other |-> it has keys besides ata_smart_attributes,                  *)
(*    ata   |-> "absent", "notable" (the section has no table) or "table", *)
(*    table |-> the entries];                                              *)
(* an entry is [id, value, raw |-> [present, string, value]], a key the    *)
(* entry does not have being Missing.                                      *)
(***************************************************************************)
Doc(other, ata, table) == [other |-> other, ata |-> ata, table |-> table]

Raw(string, value) == [present |-> TRUE, string |-> string, value |-> value]

Entry(id, value, raw) == [id |-> id, value |-> value, raw |-> raw]

\* str(x)
str(v) ==
    CASE v.t = "int" -> IntToStr(v.n)
      [] v.t = "str" -> v.s
      [] OTHER -> "None"

\* the time stamp datetime.now().strftime yields during the pass
Now == "2024-05-01 12:00:00"

\* get_smart_data: run is the run of `smartctl -A -j`; run.out.json says
\* whether json.loads accepts the output (JSONDecodeError otherwise) and
\* run.out.doc is the document it yields.  Only CalledProcessError and
\* JSONDecodeError are caught.
get_smart_data(run) ==
    CASE run.rc = "nonzero" -> Returned([t |-> "None"])
      [] run.rc = "oserror" -> Raised
      [] ~run.out.json -> Returned([t |-> "None"])
      [] OTHER -> Returned([t |-> "dict", doc |-> run.out.doc])

\* `if smart_data:` : None and the empty dictionary are false
Truthy(smart_data) ==
    smart_data.t = "dict" /\ (smart_data.doc.other \/ smart_data.doc.ata # "absent")

\* attr.get("raw", {}).get("string", attr.get("raw", {}).get("value", "0"))
RawOf(attr) ==
    IF attr.raw.present /\ attr.raw.string # Missing
    THEN attr.raw.string
    ELSE IF attr.raw.present /\ attr.raw.value # Missing
         THEN attr.raw.value
         ELSE StrV("0")

\* the raw value kept whole: the variant of FirstNumber without the regex
WholeRaw(fetched) == fetched

\* if isinstance(raw_value, str): the match of ^\d+, or "0" without a match
FirstNumber(fetched) ==
    IF fetched.t = "str"
    THEN IF Len(LeadingDigits(fetched.s)) > 0
         THEN StrV(LeadingDigits(fetched.s))
         ELSE StrV("0")
    ELSE fetched

\* the body of `for attr in attributes` of parse_smart_metrics: acc is the
\* dictionary so far, or Raised once an entry has raised
SmartEntry(acc, attr, ids) ==
    LET Assign(attr_id, normalized, raw_value) ==
            IF raw_value.t # "str"
            THEN Raised      \* raw_value.isdigit() on an int: AttributeError
            ELSE Returned(DictPut(DictPut(acc.val, NormKey(attr_id), normalized),
                                  RawKey(attr_id),
                                  IF isdigit(raw_value.s)
                                  THEN IntV(ParseInt(raw_value.s).n)
                                  ELSE StrV("0")))
        Required(attr_id) ==
            IF attr_id \notin ids THEN acc
            ELSE Assign(attr_id,
                       IF attr.value = Missing THEN IntV(0) ELSE attr.value,
                       FirstNumber(RawOf(attr)))
    IN  IF acc.raised THEN acc
        ELSE Required(str(IF attr.id = Missing THEN NoneV ELSE attr.id))

\* parse_smart_metrics; smart_data is a document (the caller passes it only
\* when it is true)
parse_smart_metrics(smart_data, model, serial_number, ids) ==
    LET RECURSIVE SmartLoop(_, _)
        \* for attr in attributes
        SmartLoop(acc, i) ==
            IF i > Len(smart_data.table) THEN acc
            ELSE SmartLoop(SmartEntry(acc, smart_data.table[i], ids), i + 1)
        From(metrics) ==
            CASE smart_data.ata = "absent" -> Returned(metrics)
              [] smart_data.ata = "notable" -> Raised     \* KeyError: 'table'
              [] OTHER -> SmartLoop(Returned(metrics), 1)
    IN  From(DictPut(DictPut(DictPut(EmptyDict,
                 "date", StrV(Now)),
                 "serial_number", StrV(serial_number)),
                 "model", StrV(model)))

(***************************************************************************)
(* The iostat probes.  run.out is the list of lines of the command output. *)
(* Every probe wraps its whole body in `except Exception`, so a failed     *)
(* command, a missing header line (StopIteration), a missing column        *)
(* (ValueError) and a short row (IndexError) all yield the probe's default.*)
(***************************************************************************)
\* `x in devices` for a list
InList(x, list) == \E i \in 1..Len(list) : list[i] = x

\* next(i for i, line in enumerate(lines) if line.startswith('Device')),
\* counted from 1; 0 stands for StopIteration
HeaderIndex(lines) ==
    IF \E i \in 1..Len(lines) : startswith(lines[i], "Device")
    THEN CHOOSE i \in 1..Len(lines) :
             /\ startswith(lines[i], "Device")
             /\ \A j \in 1..(i - 1) : ~startswith(lines[j], "Device")
    ELSE 0

\* the device-name test as a prefix test: the variant of RowMatches under
\* which a row of sda1 counts for sda
RowMatchesPrefix(parts, devices) ==
    Len(parts) > 0 /\ \E i \in 1..Len(devices) : startswith(parts[1], devices[i])

\* `if parts and parts[0] in devices`
RowMatches(parts, devices) == Len(parts) > 0 /\ InList(parts[1], devices)

\* the layout of `iostat -x` the probes were written against
IostatHeader == "Device r/s w/s rkB/s wkB/s r_await w_await aqu-sz %util"

\* the position the column has in the usual layout, whatever the header
\* read says: the variant of ColumnIndex with the positions fixed
ColumnIndexFixed(headers, column) == IndexOf(split(IostatHeader), column)

\* headers.index(column), counted from 1; 0 stands for ValueError
ColumnIndex(headers, column) == IndexOf(headers, column)

\* the part the seven per-device probes share: the dictionary of the named
\* column, or Raised.  ScanRows is the loop over lines[header_index + 1:]
\* that fills the dictionary {device: safe_float_conversion(parts[col])}.
\* guarded says whether the probe tests len(parts) > index before it reads
\* the column; without the test a matching row that is too short raises
\* IndexError.
ColumnOf(devices, run, column, guarded) ==
    LET Row(acc, parts, col) ==
            IF ~RowMatches(parts, devices) THEN acc
            ELSE IF Len(parts) < col
                 THEN IF guarded THEN acc ELSE Raised
                 ELSE Returned(DictPut(acc.val, parts[1],
                                       safe_float_conversion(parts[col])))
        RECURSIVE ScanRows(_, _, _)
        ScanRows(i, col, acc) ==
            IF acc.raised \/ i > Len(run.out) THEN acc
            ELSE ScanRows(i + 1, col, Row(acc, split(run.out[i]), col))
        Column(header_index, index) ==
            IF index = 0 THEN Raised
            ELSE ScanRows(header_index + 1, index, Returned(EmptyDict))
        Header(header_index) ==
            IF header_index = 0 THEN Raised
            ELSE Column(header_index,
                        ColumnIndex(split(run.out[header_index]), column))
    IN  IF run.rc # "ok" THEN Raised ELSE Header(HeaderIndex(run.out))

\* {device: default for device in devices}
DefaultDict(devices, default) ==
    [d \in {devices[i] : i \in 1..Len(devices)} |-> default]

\* the value of a try block, or what its except clause returns
OrElse(r, default) == IF r.raised THEN default ELSE r.val

\* the unit conversion of the throughput probes, applied to every value of
\* the dictionary
AllInUnit(r, unit) ==
    LET Product(nrm) == FloatV(nrm.n, nrm.e)
        \* a * k for an integer k
        NumMulInt(a, k) ==
            IF a.t = "int" THEN IntV(a.n * k) ELSE Product(Normalise(a.n * k, a.e))
        InUnit(kbs) ==
            CASE unit = "MB/s" -> NumDivInt(kbs, 1024)
              [] unit = "B/s" -> NumMulInt(kbs, 1024)
              [] OTHER -> kbs
    IN  IF r.raised THEN r ELSE Returned([d \in DOMAIN r.val |-> InUnit(r.val[d])])

get_io_queue_size(devices, run) ==
    OrElse(ColumnOf(devices, run, "aqu-sz", FALSE), DefaultDict(devices, StrV("0")))

get_read_success_throughput(devices, unit, run) ==
    OrElse(AllInUnit(ColumnOf(devices, run, "rkB/s", FALSE), unit),
           DefaultDict(devices, FloatV(0, 0)))

get_read_work_item_queue_time(devices, run) ==
    OrElse(ColumnOf(devices, run, "r_await", TRUE), DefaultDict(devices, FloatV(0, 0)))

\* a read rate taken from the column of the write rate
ReadQpsOfWrites(devices, run) ==
    OrElse(ColumnOf(devices, run, "w/s", TRUE), DefaultDict(devices, FloatV(0, 0)))

get_read_work_item_success_qps(devices, run) ==
    OrElse(ColumnOf(devices, run, "r/s", TRUE), DefaultDict(devices, FloatV(0, 0)))

get_write_work_item_success_qps(devices, run) ==
    OrElse(ColumnOf(devices, run, "w/s", FALSE), DefaultDict(devices, FloatV(0, 0)))

get_write_work_item_queue_time(devices, run) ==
    OrElse(ColumnOf(devices, run, "w_await", TRUE), DefaultDict(devices, FloatV(0, 0)))

get_write_success_throughput(devices, unit, run) ==
    OrElse(AllInUnit(ColumnOf(devices, run, "wkB/s", FALSE), unit),
           DefaultDict(devices, FloatV(0, 0)))

UtilDict(max_util, avg_util) == [max_util |-> max_util, avg_util |-> avg_util]

\* the average taken over one device more than the dictionary holds: the
\* variant of UtilOf with a wrong divisor
UtilOfOneMore(r) ==
    LET RECURSIVE DictSum(_, _)
        DictSum(d, ks) ==
            IF ks = {} THEN IntV(0)
            ELSE NumAdd(d[CHOOSE x \in ks : TRUE],
                        DictSum(d, ks \ {CHOOSE x \in ks : TRUE}))
        DictMax(d) ==
            d[CHOOSE k \in DOMAIN d : \A o \in DOMAIN d : ~NumLess(d[k], d[o])]
    IN  IF r.raised THEN UtilDict(IntV(0), IntV(0))
        ELSE IF DOMAIN r.val # {}
             THEN UtilDict(DictMax(r.val),
                           NumDivInt(DictSum(r.val, DOMAIN r.val),
                                     Cardinality(DOMAIN r.val) + 1))
             ELSE UtilDict(IntV(0), IntV(0))

\* the maximum and the average of get_disk_utilization
UtilOf(r) ==
    LET RECURSIVE DictSum(_, _)
        \* sum(d.values()) over the keys ks
        DictSum(d, ks) ==
            IF ks = {} THEN IntV(0)
            ELSE NumAdd(d[CHOOSE x \in ks : TRUE],
                        DictSum(d, ks \ {CHOOSE x \in ks : TRUE}))
        \* max(d.values()), d not empty
        DictMax(d) ==
            d[CHOOSE k \in DOMAIN d : \A o \in DOMAIN d : ~NumLess(d[k], d[o])]
    IN  IF r.raised THEN UtilDict(IntV(0), IntV(0))
        ELSE IF DOMAIN r.val # {}
             THEN UtilDict(DictMax(r.val),
                           NumDivInt(DictSum(r.val, DOMAIN r.val),
                                     Cardinality(DOMAIN r.val)))
             ELSE UtilDict(IntV(0), IntV(0))

get_disk_utilization(devices, run) == UtilOf(ColumnOf(devices, run, "%util", FALSE))

TotalsDict(r, w) == [total_disk_read_kb |-> r, total_disk_write_kb |-> w]

\* run is the run of `iostat -k`.  SumRows is the loop over the lines after
\* the header: acc.val = <<total_read, total_write>>.
get_total_disk_read_write(devices, run) ==
    LET Totals(r) ==
            IF r.raised THEN TotalsDict(IntV(0), IntV(0))
            ELSE TotalsDict(r.val[1], r.val[2])
        Row(acc, parts, rcol, wcol) ==
            IF ~RowMatches(parts, devices) THEN acc
            ELSE IF Len(parts) < rcol \/ Len(parts) < wcol THEN Raised
            ELSE Returned(
                   <<NumAdd(acc.val[1], safe_float_conversion(parts[rcol])),
                     NumAdd(acc.val[2], safe_float_conversion(parts[wcol]))>>)
        RECURSIVE SumRows(_, _, _, _)
        SumRows(i, rcol, wcol, acc) ==
            IF acc.raised \/ i > Len(run.out) THEN acc
            ELSE SumRows(i + 1, rcol, wcol, Row(acc, split(run.out[i]), rcol, wcol))
        Columns(header_index, kb_read_index, kb_wrtn_index) ==
            IF kb_read_index = 0 \/ kb_wrtn_index = 0 THEN Raised
            ELSE SumRows(header_index + 1, kb_read_index, kb_wrtn_index,
                         Returned(<<IntV(0), IntV(0)>>))
        Headers(header_index, headers) ==
            Columns(header_index, ColumnIndex(headers, "kB_read"),
                    ColumnIndex(headers, "kB_wrtn"))
        Header(header_index) ==
            IF header_index = 0 THEN Raised
            ELSE Headers(header_index, split(run.out[header_index]))
    IN  Totals(IF run.rc # "ok" THEN Raised ELSE Header(HeaderIndex(run.out)))

(***************************************************************************)
(* The health-status probe and the host-level probes.                      *)
(***************************************************************************)
\* `for line in lines: if <test>:` : the index of the first line that
\* passes the test, 0 when there is none; hits[i] says whether line i passes
FirstHit(hits) ==
    IF \E i \in 1..Len(hits) : hits[i]
    THEN CHOOSE i \in 1..Len(hits) : hits[i] /\ \A j \in 1..(i - 1) : ~hits[j]
    ELSE 0

HealthMarker == "SMART overall-health self-assessment test result"

\* get_disk_status: run is the run of `smartctl -H`.  The function has no
\* return statement after its loop, so it returns None when no line holds
\* the marker.
get_disk_status(run) ==
    LET HasMarker(line) == contains(line, HealthMarker)
        Last(list) == list[Len(list)]      \* list[-1]
        Status(at) ==
            IF at # 0 THEN StrV(strip(Last(split_sep(run.out[at], ":"))))
            ELSE NoneV
    IN  IF run.rc # "ok" THEN StrV("Unknown")
        ELSE Status(FirstHit([i \in 1..Len(run.out) |-> HasMarker(run.out[i])]))

\* int(line.strip().split()[0]) of a line that holds a marker
LeadingInt(line) == ParseInt(split(strip(line))[1])

\* the counter read from the last line holding the marker: the variant of
\* FirstCounter without the return inside the loop
LastCounter(run, marker) ==
    LET Hits == {i \in 1..Len(run.out) : contains(run.out[i], marker)}
        Counter(parsed) == IF parsed.ok THEN IntV(parsed.n) ELSE IntV(0)
        Found(at) == Counter(LeadingInt(run.out[at]))
    IN  IF run.rc # "ok" \/ Hits = {} THEN IntV(0)
        ELSE Found(CHOOSE i \in Hits : \A j \in Hits : j <= i)

\* the shape shared by get_tcp_outsegs_netstat and
\* get_tcp_current_connections: the first line holding the marker decides
FirstCounter(run, marker) ==
    LET HasMarker(line) == contains(line, marker)
        Counter(parsed) == IF parsed.ok THEN IntV(parsed.n) ELSE IntV(0)
        Found(at) == IF at = 0 THEN IntV(0) ELSE Counter(LeadingInt(run.out[at]))
    IN  IF run.rc # "ok" THEN IntV(0)
        ELSE Found(FirstHit([i \in 1..Len(run.out) |-> HasMarker(run.out[i])]))

get_tcp_outsegs_netstat(run) == FirstCounter(run, "segments sent out")

get_tcp_current_connections(run) == FirstCounter(run, "connections established")

\* the shape shared by get_udp_stat_netstat and get_net_pps.  PairScan is
\* their if/elif loop over the lines: acc.val is <<first counter, second
\* counter>>, and a line that holds a marker sets its counter.
PairOf(run, first, second) ==
    LET SetFirst(acc, parsed) ==
            IF parsed.ok THEN Returned(<<IntV(parsed.n), acc.val[2]>>) ELSE Raised
        SetSecond(acc, parsed) ==
            IF parsed.ok THEN Returned(<<acc.val[1], IntV(parsed.n)>>) ELSE Raised
        Line(acc, line) ==
            IF contains(line, first) THEN SetFirst(acc, LeadingInt(line))
            ELSE IF contains(line, second) THEN SetSecond(acc, LeadingInt(line))
            ELSE acc
        RECURSIVE PairScan(_, _)
        PairScan(i, acc) ==
            IF acc.raised \/ i > Len(run.out) THEN acc
            ELSE PairScan(i + 1, Line(acc, run.out[i]))
    IN  IF run.rc # "ok" THEN <<IntV(0), IntV(0)>>
        ELSE OrElse(PairScan(1, Returned(<<IntV(0), IntV(0)>>)), <<IntV(0), IntV(0)>>)

\* <<udp_outdatagrams, udp_indatagrams>>
get_udp_stat_netstat(run) == PairOf(run, "datagrams sent", "datagrams received")

\* <<net_pps_receive, net_pps_transmit>>
get_net_pps(run) == PairOf(run, "packets received", "packets sent")

PageDict(page_in, page_out) == [page_in |-> page_in, page_out |-> page_out]

\* get_page_activity: run is the run of `vmstat 1 2`
get_page_activity(run) ==
    LET lines == run.out
        Zero == PageDict(IntV(0), IntV(0))
        IsProcs(line) == startswith(line, "procs")
        Parsed(page_in, page_out) ==
            IF ~page_in.ok \/ ~page_out.ok THEN Zero
            ELSE PageDict(IntV(page_in.n), IntV(page_out.n))
        Data(si_index, so_index, data_line) ==
            IF Len(data_line) < si_index \/ Len(data_line) < so_index THEN Zero
            ELSE Parsed(ParseInt(data_line[si_index]), ParseInt(data_line[so_index]))
        Columns(header_index, si_index, so_index) ==
            IF si_index = 0 \/ so_index = 0 \/ Len(lines) < header_index + 2 THEN Zero
            ELSE Data(si_index, so_index, split(lines[header_index + 2]))
        Headers(header_index, headers) ==
            Columns(header_index, IndexOf(headers, "si"), IndexOf(headers, "so"))
        Header(header_index) ==
            IF header_index = 0 \/ Len(lines) < header_index + 1 THEN Zero
            ELSE Headers(header_index, split(lines[header_index + 1]))
    IN  IF run.rc # "ok" THEN Zero
        ELSE Header(FirstHit([i \in 1..Len(lines) |-> IsProcs(lines[i])]))

MemDict(total, used, free, reserved) ==
    [t |-> "dict", total_mem_kb |-> total, used_mem_kb |-> used,
     free_mem_kb |-> free, reserved_mem_kb |-> reserved]

\* the second label is the Russian one of the source, written in Latin
\* letters here
MemLabels == {"Mem:", "Pamyat:"}

\* get_memory_summary: run is the run of `free -k`.  The function has no
\* return statement after its loop, so it returns None when no line starts
\* with a label.
get_memory_summary(run) ==
    LET Zero == MemDict(IntV(0), IntV(0), IntV(0), IntV(0))
        IsMem(line) == \E label \in MemLabels : startswith(line, label)
        Summary(total_mem, used_mem, free_mem) ==
            MemDict(total_mem, used_mem, free_mem, NumSub(total_mem, used_mem))
        Row(parts) ==
            IF Len(parts) < 4 THEN Zero
            ELSE Summary(safe_float_conversion(parts[2]),
                         safe_float_conversion(parts[3]),
                         safe_float_conversion(parts[4]))
        Found(at) == IF at = 0 THEN [t |-> "None"] ELSE Row(split(run.out[at]))
    IN  IF run.rc # "ok" THEN Zero
        ELSE Found(FirstHit([i \in 1..Len(run.out) |-> IsMem(run.out[i])]))

\* get_cpu_kernel_usage: run is the run of `mpstat 1 1`
get_cpu_kernel_usage(run) ==
    LET IsHeader(line) == contains(line, "CPU") /\ contains(line, "%idle")
        HasAll(line) == contains(line, "all")
        Usage(idle_index, parts) ==
            IF Len(parts) < idle_index THEN IntV(0)
            ELSE NumSub(IntV(100),
                        safe_float_conversion(replace(parts[idle_index], ",", ".")))
        Found(idle_index, rest, at) ==
            IF at = 0 THEN IntV(0) ELSE Usage(idle_index, split(rest[at]))
        Rest(idle_index, rest) ==
            IF idle_index = 0 THEN IntV(0)
            ELSE Found(idle_index, rest, FirstHit([i \in 1..Len(rest) |-> HasAll(rest[i])]))
        Header(header_index) ==
            IF header_index = 0 THEN IntV(0)
            ELSE Rest(IndexOf(split(run.out[header_index]), "%idle"),
                      SubSeq(run.out, header_index + 1, Len(run.out)))
    IN  IF run.rc # "ok" THEN IntV(0)
        ELSE Header(FirstHit([i \in 1..Len(run.out) |-> IsHeader(run.out[i])]))

\* get_receive_speed: run is the run of `ifstat 1 1`
get_receive_speed(interface, run) ==
    LET Speed(data_line, position) ==
            IF Len(data_line) < position THEN IntV(0)
            ELSE safe_float_conversion(data_line[position])
        Lines(interfaces, data_line) ==
            IF InList(interface, interfaces)
            THEN Speed(data_line, (IndexOf(interfaces, interface) - 1) * 2 + 1)
            ELSE IntV(0)
    IN  IF run.rc # "ok" \/ Len(run.out) < 3 THEN IntV(0)
        ELSE Lines(split(run.out[1]), split(run.out[3]))

(***************************************************************************)
(* Device enumeration.                                                     *)
(***************************************************************************)
\* get_disk_list: run is the run of `lsblk -dn -o NAME,TYPE`; only
\* CalledProcessError is caught
get_disk_list(run) ==
    LET RECURSIVE DiskLines(_)
        \* the list comprehension over the lines of the output
        DiskLines(i) ==
            IF i > Len(run.out) THEN <<>>
            ELSE (IF contains(run.out[i], "disk")
                  THEN <<"/dev/" \o split(run.out[i])[1]>> ELSE <<>>)
                 \o DiskLines(i + 1)
    IN  CASE run.rc = "nonzero" -> Returned(<<>>)
          [] run.rc = "oserror" -> Raised
          [] OTHER -> Returned(DiskLines(1))

\* get_disk_info: run is the run of `smartctl -i`; only CalledProcessError
\* is caught.  InfoScan is the loop over the lines: acc.val is
\* <<model, serial_number>>; a marked line without a colon raises
\* IndexError, which nothing catches.
get_disk_info(run) ==
    LET Line(acc, line, pieces) ==
            IF contains(line, "Device Model")
            THEN IF Len(pieces) < 2 THEN Raised
                 ELSE Returned(<<strip(pieces[2]), acc.val[2]>>)
            ELSE IF contains(line, "Serial Number")
                 THEN IF Len(pieces) < 2 THEN Raised
                      ELSE Returned(<<acc.val[1], strip(pieces[2])>>)
                 ELSE acc
        RECURSIVE InfoScan(_, _)
        InfoScan(i, acc) ==
            IF acc.raised \/ i > Len(run.out) THEN acc
            ELSE InfoScan(i + 1, Line(acc, run.out[i], split_sep(run.out[i], ":")))
    IN  CASE run.rc = "nonzero" -> Returned(<<"Unknown", "Unknown">>)
          [] run.rc = "oserror" -> Raised
          [] OTHER -> InfoScan(1, Returned(<<"Unknown", "Unknown">>))

(***************************************************************************)
(* The sinks.  The store is the CSV file: whether it exists and its lines. *)
(***************************************************************************)
Store(exists, lines) == [exists |-> exists, lines |-> lines]

\* the line csv.DictWriter.writeheader writes
HeaderLine(names) ==
    [kind |-> "header", cells |-> [i \in 1..Len(names) |-> StrV(names[i])]]

\* the row csv.DictWriter forms: the cells in the order of the field names,
\* '' for a key the record lacks
RowLine(metrics, names) ==
    [kind |-> "row",
     cells |-> [i \in 1..Len(names) |-> DictGet(metrics, names[i], StrV(""))]]

\* write_csv.  fault is where the file system fails the call: "none",
\* "open" (open raises, nothing changes), "header" (the file is opened, and
\* so created, but writeheader raises) or "row" (writerow raises).
\* writerow itself raises ValueError for a key that is not a field name.
\* Every exception is caught and logged.
write_csv(metrics, names, csv, fault) ==
    LET file_exists == csv.exists
        Extras == (DOMAIN metrics) \ {names[i] : i \in 1..Len(names)}
        Opened == Store(TRUE, csv.lines)
        Headed == IF ~file_exists
                  THEN Store(TRUE, Append(csv.lines, HeaderLine(names)))
                  ELSE Opened
        WriteRow(headed) ==
            IF fault = "row" \/ Extras # {}
            THEN [ok |-> FALSE, csv |-> headed]
            ELSE [ok |-> TRUE,
                  csv |-> Store(TRUE, Append(headed.lines, RowLine(metrics, names)))]
    IN  CASE fault = "open" -> [ok |-> FALSE, csv |-> csv]
          [] fault = "header" /\ ~file_exists -> [ok |-> FALSE, csv |-> Opened]
          [] OTHER -> WriteRow(Headed)

\* send_metrics_to_server: reply is the status code of the POST, or
\* "exception" for a transport error; both failures are logged and the
\* function returns None.  The result is what the log says.
send_metrics_to_server(metrics, reply) ==
    IF reply = "200" THEN "sent" ELSE "not sent"

(***************************************************************************)
(* The environment: what the external commands print.  Every call of a     *)
(* probe starts the command afresh, so every call draws its own run.  A    *)
(* nominal run is what a healthy host prints; at most MaxFaults calls of   *)
(* one pass see another run, and during an outage the host tools           *)
(* (iostat, netstat, vmstat, free, mpstat, ifstat) cannot be started at    *)
(* all.                                                                    *)
(***************************************************************************)
\* the name of the disk lsblk lists at position i
DiskName(i) == "sd" \o Ch("abcdefghij", i)

DiskNumbers == 1..MaxDisks

Choice(run, cost) == [run |-> run, cost |-> cost]

Failure == Run("nonzero", <<>>)

\* the runs of lsblk: it lists n disks and an optical drive, or fails
LsblkRuns ==
    {Choice(Run("ok", [i \in 1..n |-> DiskName(i) \o "   disk"] \o <<"sr0    rom">>), 0) :
        n \in 0..MaxDisks}
    \cup {Choice(Run("nonzero", <<>>), 1), Choice(Run("oserror", <<>>), 1)}

Json(doc) == [json |-> TRUE, doc |-> doc]

NotJson == [json |-> FALSE]

\* a table with three required attributes and one that is not required
NominalTable ==
    <<Entry(IntV(5), IntV(100), Raw(StrV("0"), IntV(0))),
      Entry(IntV(9), IntV(98), Raw(StrV("1620 (176 116 0)"), IntV(1620))),
      Entry(IntV(190), IntV(64), Raw(StrV("36"), IntV(36))),
      Entry(IntV(194), IntV(64), Raw(StrV("36 (Min/Max 20/45)"), IntV(36)))>>

IostatRow(name) == name \o " 12.3 4.0 204.8 51.2 0.5 1.2 0.05 3.2"

\* the row iostat -x prints for the first partition of a disk
PartitionRow(name) == name \o "1 1,5 1.0 8.0 8.0 0.1 0.1 0.01 0.5"

\* what command prints on a healthy host.  iostat -x prints a preamble, the
\* table header, a row for every disk and a row for the first partition of
\* every disk.
Nominal(command) ==
    CASE command = "smartctl -i" ->
           Run("ok", <<"=== START OF INFORMATION SECTION ===",
                       "Device Model:     WDC WD10EZEX",
                       "Serial Number:    WD-WCC6Y",
                       "User Capacity:    1,000,204,886,016 bytes [1.00 TB]">>)
      [] command = "smartctl -A" ->
           Run("ok", Json(Doc(TRUE, "table", NominalTable)))
      [] command = "smartctl -H" ->
           Run("ok", <<"=== START OF READ SMART DATA SECTION ===",
                       "SMART overall-health self-assessment test result: PASSED">>)
      [] command = "iostat -x" ->
           Run("ok", <<"Linux 5.15.0 (host)", "", IostatHeader>>
                     \o [i \in DiskNumbers |-> IostatRow(DiskName(i))]
                     \o [i \in DiskNumbers |-> PartitionRow(DiskName(i))])
      [] command = "iostat -k" ->
           Run("ok", <<"Device tps kB_read/s kB_wrtn/s kB_read kB_wrtn">>
                     \o [i \in DiskNumbers |-> DiskName(i) \o " 3.1 20.5 11.0 123456 654321"])
      [] command = "netstat -s" ->
           Run("ok", <<"Ip:", "    5100 total packets received",
                       "Tcp:", "    12 connections established",
                       "    7000 segments received", "    9000 segments sent out",
                       "Udp:", "    40 packets received", "    38 packets sent",
                       "UdpLite:", "IpExt:",
                       "    77 datagrams sent", "    66 datagrams received">>)
      [] command = "vmstat" ->
           Run("ok", <<"procs -----------memory---------- ---swap-- -----io----",
                       " r  b   swpd   free  si   so    bi    bo",
                       " 1  0      0  81234   3    4    10    20",
                       " 0  0      0  81200   0    0     0     5">>)
      [] command = "free -k" ->
           Run("ok", <<"              total        used        free",
                       "Mem:       16000000     4000000    12000000",
                       "Swap:             0           0           0">>)
      [] command = "mpstat" ->
           Run("ok", <<"Linux 5.15.0 (host)", "",
                       "12:00:00  CPU  %usr  %sys  %idle",
                       "12:00:01  all  1,00  2,00  97,25">>)
      [] command = "ifstat" ->
           Run("ok", <<"       eno1                lo",
                       " KB/s in  KB/s out   KB/s in  KB/s out",
                       "    1.50      2.00      0.00      0.00">>)

\* the other runs of command: it exits non-zero, it cannot be started, or
\* it prints something the probe is not written for (a line without a colon,
\* a document without the table or with a raw value without its string, no
\* health marker, rows for the partitions only, a label of another locale)
Deviants(command) ==
    CASE command = "smartctl -i" ->
           {Run("nonzero", <<>>), Run("oserror", <<>>),
            Run("ok", <<"Device Model WDC", "Serial Number:    WD-WCC6Y">>)}
      [] command = "smartctl -A" ->
           {Run("nonzero", NotJson), Run("oserror", NotJson), Run("ok", NotJson),
            Run("ok", Json(Doc(FALSE, "absent", <<>>))),
            Run("ok", Json(Doc(TRUE, "absent", <<>>))),
            Run("ok", Json(Doc(TRUE, "notable", <<>>))),
            Run("ok", Json(Doc(TRUE, "table",
                               <<Entry(IntV(5), IntV(100), Raw(Missing, IntV(7)))>>)))}
      [] command = "smartctl -H" ->
           {Failure, Run("ok", <<"SMART support is: Unavailable">>)}
      [] command = "iostat -x" ->
           {Failure,
            Run("ok", <<IostatHeader>>
                      \o [i \in DiskNumbers |-> PartitionRow(DiskName(i))])}
      [] command = "free -k" ->
           {Failure,
            Run("ok", <<"              total        used        free",
                        "Speicher:  16000000     4000000    12000000">>)}
      [] OTHER -> {Failure}

(***************************************************************************)
(* The pass: the main block of collect_disk_metrics.py.                    *)
(***************************************************************************)
VARIABLES
    pc,          \* the statement the main block is at
    disks,       \* the list get_disk_list returned
    idx,         \* position in disks of the disk the loop is at
    info,        \* <<model, serial_number>> of that disk
    smart_data,  \* what get_smart_data returned for that disk
    metrics,     \* the record under construction
    hist,        \* per disk reached: the probes invoked, the SMART outcome
    faults,      \* calls of this pass that saw a run other than the nominal
    outage,      \* the host tools cannot be started during this pass
    csv,         \* the CSV file
    writes,      \* the write_csv calls: disk position and success
    posts,       \* the send_metrics_to_server calls: disk position, the
                 \* record posted, reply
    arg,         \* input of the function under test (probe specifications)
    res          \* its result

vars == <<pc, disks, idx, info, smart_data, metrics, hist, faults, outage,
          csv, writes, posts, arg, res>>

\* the commands of the host tools
HostTools ==
    {"iostat -x", "iostat -k", "netstat -s", "vmstat", "free -k", "mpstat", "ifstat"}

\* the runs a call of command may see, each with what it takes from the
\* budget
Choices(command) ==
    IF outage /\ command \in HostTools
    THEN {Choice(Run("oserror", <<>>), 0)}
    ELSE {Choice(Nominal(command), 0)}
         \cup (IF faults < MaxFaults
               THEN {Choice(d, 1) : d \in Deviants(command)}
               ELSE {})

\* no function under test
NoArg == [fn |-> "none"]

Init ==
    /\ pc = "get_disk_list"
    /\ disks = <<>>
    /\ idx = 0
    /\ info = <<"", "">>
    /\ smart_data = [t |-> "None"]
    /\ metrics = EmptyDict
    /\ hist = <<>>
    /\ faults = 0
    /\ outage \in BOOLEAN
    /\ csv = Store(FALSE, <<>>)
    /\ writes = <<>>
    /\ posts = <<>>
    /\ arg = NoArg
    /\ res = NoArg

\* the name of the disk the loop is at, as the probes get it:
\* disk.replace("/dev/", "")
Dev == replace(disks[idx], "/dev/", "")

\* `for disk in disks` moving to position i: the next disk, or the end of
\* the collection; h is the history so far
LoopTo(i, list, h) ==
    /\ idx' = i
    /\ pc' = IF i <= Len(list) THEN "get_disk_info" ELSE "done"
    /\ info' = <<"", "">>
    /\ smart_data' = [t |-> "None"]
    /\ metrics' = EmptyDict
    /\ hist' = IF i <= Len(list)
               THEN Append(h, [invoked |-> {}, smart |-> "pending"])
               ELSE h

Invoke(probe) == [hist EXCEPT ![idx].invoked = @ \cup {probe}]

\* an exception nothing catches ends the process
Crash ==
    /\ pc' = "crashed"
    /\ UNCHANGED <<idx, info, smart_data, metrics>>

GetDiskList ==
    /\ pc = "get_disk_list"
    /\ \E c \in LsblkRuns :
          /\ c.cost = 0 \/ faults < MaxFaults
          /\ faults' = faults + c.cost
          /\ \E r \in {get_disk_list(c.run)} :
                IF r.raised
                THEN Crash /\ UNCHANGED <<disks, hist>>
                ELSE disks' = r.val /\ LoopTo(1, r.val, hist)
    /\ UNCHANGED <<outage, csv, writes, posts, arg, res>>

GetDiskInfo ==
    /\ pc = "get_disk_info"
    /\ \E c \in Choices("smartctl -i") :
          /\ faults' = faults + c.cost
          /\ \E r \in {get_disk_info(c.run)} :
                IF r.raised
                THEN Crash
                ELSE /\ info' = r.val
                     /\ pc' = "get_smart_data"
                     /\ UNCHANGED <<idx, smart_data, metrics>>
    /\ hist' = Invoke("get_disk_info")
    /\ UNCHANGED <<disks, outage, csv, writes, posts, arg, res>>

\* what the history keeps of a get_smart_data call
SmartSeen(r) ==
    [hist EXCEPT ![idx].invoked = @ \cup {"get_smart_data"},
                 ![idx].smart = IF r.raised THEN "raised"
                                ELSE IF Truthy(r.val) THEN "data"
                                ELSE "no data"]

\* get_smart_data and the test `if smart_data:`; when the test fails the
\* loop goes on to the next disk
GetSmartData ==
    /\ pc = "get_smart_data"
    /\ \E c \in Choices("smartctl -A") :
          /\ faults' = faults + c.cost
          /\ \E r \in {get_smart_data(c.run)} :
                IF r.raised
                THEN Crash /\ hist' = SmartSeen(r)
                ELSE IF Truthy(r.val)
                     THEN /\ smart_data' = r.val
                          /\ pc' = "parse_smart_metrics"
                          /\ hist' = SmartSeen(r)
                          /\ UNCHANGED <<idx, info, metrics>>
                     ELSE LoopTo(idx + 1, disks, SmartSeen(r))
    /\ UNCHANGED <<disks, outage, csv, writes, posts, arg, res>>

\* what a probe step of the device loop leaves alone
ProbeFrame == UNCHANGED <<disks, idx, info, smart_data, outage, csv, writes, posts, arg, res>>

\* parse_smart_metrics as the main block calls it; an exception it raises
\* is caught nowhere
ParseSmartMetrics ==
    /\ pc = "parse_smart_metrics"
    /\ \E r \in {parse_smart_metrics(smart_data.doc, info[1], info[2], required_ids)} :
          IF r.raised
          THEN pc' = "crashed" /\ UNCHANGED metrics
          ELSE pc' = "get_disk_status" /\ metrics' = r.val
    /\ hist' = Invoke("parse_smart_metrics")
    /\ UNCHANGED faults
    /\ ProbeFrame

GetDiskStatus ==
    /\ pc = "get_disk_status"
    /\ \E c \in Choices("smartctl -H") :
          /\ faults' = faults + c.cost
          /\ metrics' = DictPut(metrics, "disk_status", get_disk_status(c.run))
    /\ pc' = "get_io_queue_size"
    /\ hist' = Invoke("get_disk_status")
    /\ ProbeFrame

GetIoQueueSize ==
    /\ pc = "get_io_queue_size"
    /\ \E c \in Choices("iostat -x") :
          /\ faults' = faults + c.cost
          /\ metrics' = DictPut(metrics, "io_queue_size",
                             DictGet(get_io_queue_size(<<Dev>>, c.run),
                                     Dev, StrV("NaN")))
    /\ pc' = "get_read_success_throughput"
    /\ hist' = Invoke("get_io_queue_size")
    /\ ProbeFrame

GetReadSuccessThroughput ==
    /\ pc = "get_read_success_throughput"
    /\ \E c \in Choices("iostat -x") :
          /\ faults' = faults + c.cost
          /\ metrics' = DictPut(metrics, "read_throughput",
                             DictGet(get_read_success_throughput(<<Dev>>, "KB/s", c.run),
                                     Dev, StrV("NaN")))
    /\ pc' = "get_read_work_item_queue_time"
    /\ hist' = Invoke("get_read_success_throughput")
    /\ ProbeFrame

GetReadWorkItemQueueTime ==
    /\ pc = "get_read_work_item_queue_time"
    /\ \E c \in Choices("iostat -x") :
          /\ faults' = faults + c.cost
          /\ metrics' = DictPut(metrics, "read_queue_time",
                             DictGet(get_read_work_item_queue_time(<<Dev>>, c.run),
                                     Dev, StrV("NaN")))
    /\ pc' = "get_read_work_item_success_qps"
    /\ hist' = Invoke("get_read_work_item_queue_time")
    /\ ProbeFrame

GetReadWorkItemSuccessQps ==
    /\ pc = "get_read_work_item_success_qps"
    /\ \E c \in Choices("iostat -x") :
          /\ faults' = faults + c.cost
          /\ metrics' = DictPut(metrics, "read_qps",
                             DictGet(get_read_work_item_success_qps(<<Dev>>, c.run),
                                     Dev, StrV("NaN")))
    /\ pc' = "get_write_work_item_success_qps"
    /\ hist' = Invoke("get_read_work_item_success_qps")
    /\ ProbeFrame

GetWriteWorkItemSuccessQps ==
    /\ pc = "get_write_work_item_success_qps"
    /\ \E c \in Choices("iostat -x") :
          /\ faults' = faults + c.cost
          /\ metrics' = DictPut(metrics, "write_qps",
                             DictGet(get_write_work_item_success_qps(<<Dev>>, c.run),
                                     Dev, IntV(0)))
    /\ pc' = "get_write_work_item_queue_time"
    /\ hist' = Invoke("get_write_work_item_success_qps")
    /\ ProbeFrame

GetWriteWorkItemQueueTime ==
    /\ pc = "get_write_work_item_queue_time"
    /\ \E c \in Choices("iostat -x") :
          /\ faults' = faults + c.cost
          /\ metrics' = DictPut(metrics, "write_queue_time",
                             DictGet(get_write_work_item_queue_time(<<Dev>>, c.run),
                                     Dev, StrV("NaN")))
    /\ pc' = "get_write_success_throughput"
    /\ hist' = Invoke("get_write_work_item_queue_time")
    /\ ProbeFrame

GetWriteSuccessThroughput ==
    /\ pc = "get_write_success_throughput"
    /\ \E c \in Choices("iostat -x") :
          /\ faults' = faults + c.cost
          /\ metrics' = DictPut(metrics, "write_throughput",
                             DictGet(get_write_success_throughput(<<Dev>>, "KB/s", c.run),
                                     Dev, IntV(0)))
    /\ pc' = "get_disk_utilization"
    /\ hist' = Invoke("get_write_success_throughput")
    /\ ProbeFrame

GetDiskUtilization ==
    /\ pc = "get_disk_utilization"
    /\ \E c \in Choices("iostat -x") :
          /\ faults' = faults + c.cost
          /\ \E disk_util \in {get_disk_utilization(<<Dev>>, c.run)} :
                metrics' = DictPut(DictPut(metrics,
                               "disk_max_util", disk_util.max_util),
                               "disk_avg_util", disk_util.avg_util)
    /\ pc' = "get_tcp_outsegs_netstat"
    /\ hist' = Invoke("get_disk_utilization")
    /\ ProbeFrame

GetTcpOutsegs ==
    /\ pc = "get_tcp_outsegs_netstat"
    /\ \E c \in Choices("netstat -s") :
          /\ faults' = faults + c.cost
          /\ metrics' = DictPut(metrics, "tcp_outsegs", get_tcp_outsegs_netstat(c.run))
    /\ pc' = "get_page_activity"
    /\ hist' = Invoke("get_tcp_outsegs_netstat")
    /\ ProbeFrame

GetPageActivity ==
    /\ pc = "get_page_activity"
    /\ \E c \in Choices("vmstat") :
          /\ faults' = faults + c.cost
          /\ \E page_activity \in {get_page_activity(c.run)} :
                metrics' = DictPut(DictPut(metrics,
                               "page_in", page_activity.page_in),
                               "page_out", page_activity.page_out)
    /\ pc' = "get_total_disk_read_write"
    /\ hist' = Invoke("get_page_activity")
    /\ ProbeFrame

GetTotalDiskReadWrite ==
    /\ pc = "get_total_disk_read_write"
    /\ \E c \in Choices("iostat -k") :
          /\ faults' = faults + c.cost
          /\ \E disk_summary \in {get_total_disk_read_write(<<Dev>>, c.run)} :
                metrics' = DictPut(DictPut(metrics,
                               "total_disk_read_kb", disk_summary.total_disk_read_kb),
                               "total_disk_write_kb", disk_summary.total_disk_write_kb)
    /\ pc' = "get_memory_summary"
    /\ hist' = Invoke("get_total_disk_read_write")
    /\ ProbeFrame

\* memory_summary["reserved_mem_kb"] raises TypeError when the probe
\* returned None, and nothing catches it
GetMemorySummary ==
    /\ pc = "get_memory_summary"
    /\ \E c \in Choices("free -k") :
          /\ faults' = faults + c.cost
          /\ \E memory_summary \in {get_memory_summary(c.run)} :
                IF memory_summary.t = "None"
                THEN pc' = "crashed" /\ UNCHANGED metrics
                ELSE /\ pc' = "get_cpu_kernel_usage"
                     /\ metrics' = DictPut(metrics, "mem_res",
                                           memory_summary.reserved_mem_kb)
    /\ hist' = Invoke("get_memory_summary")
    /\ ProbeFrame

GetCpuKernelUsage ==
    /\ pc = "get_cpu_kernel_usage"
    /\ \E c \in Choices("mpstat") :
          /\ faults' = faults + c.cost
          /\ metrics' = DictPut(metrics, "cpu_kernel", get_cpu_kernel_usage(c.run))
    /\ pc' = "get_udp_stat_netstat"
    /\ hist' = Invoke("get_cpu_kernel_usage")
    /\ ProbeFrame

GetUdpStat ==
    /\ pc = "get_udp_stat_netstat"
    /\ \E c \in Choices("netstat -s") :
          /\ faults' = faults + c.cost
          /\ \E udp \in {get_udp_stat_netstat(c.run)} :
                metrics' = DictPut(DictPut(metrics,
                               "udp_outdatagrams", udp[1]),
                               "udp_indatagrams", udp[2])
    /\ pc' = "get_net_pps"
    /\ hist' = Invoke("get_udp_stat_netstat")
    /\ ProbeFrame

GetNetPps ==
    /\ pc = "get_net_pps"
    /\ \E c \in Choices("netstat -s") :
          /\ faults' = faults + c.cost
          /\ \E pps \in {get_net_pps(c.run)} :
                metrics' = DictPut(DictPut(metrics,
                               "net_pps_receive", pps[1]),
                               "net_pps_transmit", pps[2])
    /\ pc' = "get_receive_speed"
    /\ hist' = Invoke("get_net_pps")
    /\ ProbeFrame

GetReceiveSpeed ==
    /\ pc = "get_receive_speed"
    /\ \E c \in Choices("ifstat") :
          /\ faults' = faults + c.cost
          /\ metrics' = DictPut(metrics, "receive_speed", get_receive_speed("eno1", c.run))
    /\ pc' = "get_tcp_current_connections"
    /\ hist' = Invoke("get_receive_speed")
    /\ ProbeFrame

GetTcpCurrentConnections ==
    /\ pc = "get_tcp_current_connections"
    /\ \E c \in Choices("netstat -s") :
          /\ faults' = faults + c.cost
          /\ metrics' = DictPut(metrics, "tcp_currestab", get_tcp_current_connections(c.run))
    /\ pc' = "back_fill"
    /\ hist' = Invoke("get_tcp_current_connections")
    /\ ProbeFrame

\* the record left as the probes built it: the variant of BackFilled that
\* skips the loop over fieldnames
NotBackFilled(record, names) == record

\* for field in fieldnames: if field not in metrics: metrics[field] = 0
BackFilled(record, names) ==
    [f \in (DOMAIN record) \cup {names[i] : i \in 1..Len(names)} |->
        IF f \in DOMAIN record THEN record[f] ELSE IntV(0)]

BackFill ==
    /\ pc = "back_fill"
    /\ metrics' = BackFilled(metrics, fieldnames)
    /\ pc' = "write_csv"
    /\ UNCHANGED <<hist, faults>>
    /\ ProbeFrame

\* the faults the file system may answer a write_csv call with
CsvFaults == {"open", "header", "row"}

\* write_csv without its `except Exception`: a failed append ends the pass
WriteCsvUncaught ==
    /\ pc = "write_csv"
    /\ \E fault \in {"none"} \cup (IF faults < MaxFaults THEN CsvFaults ELSE {}) :
          /\ faults' = faults + (IF fault = "none" THEN 0 ELSE 1)
          /\ \E r \in {write_csv(metrics, fieldnames, csv, fault)} :
                /\ csv' = r.csv
                /\ writes' = Append(writes, [disk |-> idx, ok |-> r.ok])
                /\ pc' = IF r.ok THEN "send_metrics_to_server" ELSE "crashed"
    /\ UNCHANGED <<disks, idx, info, smart_data, metrics, hist, outage, posts, arg, res>>

WriteCsv ==
    /\ pc = "write_csv"
    /\ \E fault \in {"none"} \cup (IF faults < MaxFaults THEN CsvFaults ELSE {}) :
          /\ faults' = faults + (IF fault = "none" THEN 0 ELSE 1)
          /\ \E r \in {write_csv(metrics, fieldnames, csv, fault)} :
                /\ csv' = r.csv
                /\ writes' = Append(writes, [disk |-> idx, ok |-> r.ok])
    /\ pc' = "send_metrics_to_server"
    /\ UNCHANGED <<disks, idx, info, smart_data, metrics, hist, outage, posts, arg, res>>

\* a POST may be answered by 200, by another status or by a transport error
SendMetricsToServer ==
    /\ pc = "send_metrics_to_server"
    /\ \E reply \in {"200"} \cup (IF faults < MaxFaults THEN {"500", "exception"} ELSE {}) :
          /\ faults' = faults + (IF reply = "200" THEN 0 ELSE 1)
          /\ posts' = Append(posts, [disk |-> idx, reply |-> reply,
                                     payload |-> metrics,
                                     log |-> send_metrics_to_server(metrics, reply)])
    /\ LoopTo(idx + 1, disks, hist)
    /\ UNCHANGED <<disks, outage, csv, writes, arg, res>>

Next ==
    \/ GetDiskList \/ GetDiskInfo \/ GetSmartData \/ ParseSmartMetrics
    \/ GetDiskStatus \/ GetIoQueueSize \/ GetReadSuccessThroughput
    \/ GetReadWorkItemQueueTime \/ GetReadWorkItemSuccessQps
    \/ GetWriteWorkItemSuccessQps \/ GetWriteWorkItemQueueTime
    \/ GetWriteSuccessThroughput \/ GetDiskUtilization \/ GetTcpOutsegs
    \/ GetPageActivity \/ GetTotalDiskReadWrite \/ GetMemorySummary
    \/ GetCpuKernelUsage \/ GetUdpStat \/ GetNetPps \/ GetReceiveSpeed
    \/ GetTcpCurrentConnections
    \/ BackFill \/ WriteCsv \/ SendMetricsToServer

Spec == Init /\ [][Next]_vars

\* a command that was started never exits: subprocess.run and
\* subprocess.check_output are called without timeout=, so the call never
\* returns and the pass stays where it is
CommandHangs ==
    /\ pc \in {"get_disk_list", "get_disk_info", "get_smart_data", "get_disk_status"}
               \cup (IF outage THEN {}
                     ELSE {"get_io_queue_size", "get_read_success_throughput",
                           "get_read_work_item_queue_time",
                           "get_read_work_item_success_qps",
                           "get_write_work_item_success_qps",
                           "get_write_work_item_queue_time",
                           "get_write_success_throughput", "get_disk_utilization",
                           "get_tcp_outsegs_netstat", "get_page_activity",
                           "get_total_disk_read_write", "get_memory_summary",
                           "get_cpu_kernel_usage", "get_udp_stat_netstat",
                           "get_net_pps", "get_receive_speed",
                           "get_tcp_current_connections"})
    /\ pc' = "hung"
    /\ UNCHANGED <<disks, idx, info, smart_data, metrics, hist, faults, outage,
                   csv, writes, posts, arg, res>>

\* the pass on a host where commands may hang; the interpreter takes every
\* step the pass can take
HangSpec == Init /\ [][Next \/ CommandHangs]_vars /\ WF_vars(Next)

(***************************************************************************)
(* Properties of the pass.                                                 *)
(***************************************************************************)
\* the functions the main block calls for a disk whose SMART data is true
DeviceProbes ==
    {"get_disk_info", "get_smart_data", "parse_smart_metrics",
     "get_disk_status", "get_io_queue_size", "get_read_success_throughput",
     "get_read_work_item_queue_time", "get_read_work_item_success_qps",
     "get_write_work_item_success_qps", "get_write_work_item_queue_time",
     "get_write_success_throughput", "get_disk_utilization",
     "get_tcp_outsegs_netstat", "get_page_activity",
     "get_total_disk_read_write", "get_memory_summary",
     "get_cpu_kernel_usage", "get_udp_stat_netstat", "get_net_pps",
     "get_receive_speed", "get_tcp_current_connections"}

\* the pass has left disk i behind: it moved on, ended or crashed
Over(i) == idx > i \/ pc \in {"done", "crashed"}

\* the positions of the calls of a sink log that are about disk i
CallsFor(log, i) == {k \in 1..Len(log) : log[k].disk = i}

\* the data lines of the CSV file
Rows(store) == {k \in 1..Len(store.lines) : store.lines[k].kind = "row"}

\* C1: every record handed to write_csv and send_metrics_to_server has
\* exactly the keys of fieldnames, no field missing and none extra, whatever
\* the probes returned; so has every record posted and every row appended.
C1_RecordHasExactlyTheSchema ==
    /\ pc \in {"write_csv", "send_metrics_to_server"} => DOMAIN metrics = FieldSet
    /\ \A k \in 1..Len(posts) : DOMAIN posts[k].payload = FieldSet
    /\ \A k \in Rows(csv) : Len(csv.lines[k].cells) = Len(fieldnames)

\* a record is handed to write_csv after every host tool failed to start:
\* its SMART columns of attributes the table lacks and nothing else were
\* back-filled
C1_Witness ==
    /\ pc = "write_csv"
    /\ outage
    /\ DOMAIN metrics = FieldSet
    /\ metrics["smart_1_raw"] = IntV(0)
    /\ metrics["io_queue_size"] = StrV("0")

\* C2: when get_smart_data yields no data for a disk, the pass still hands
\* a record of that disk to both sinks, with every SMART column 0 and
\* disk_status "Unknown".
C2_SmartFailureStillYieldsRecord ==
    \A i \in 1..Len(hist) :
        (hist[i].smart = "no data" /\ Over(i)) =>
            /\ CallsFor(writes, i) # {}
            /\ \E k \in CallsFor(posts, i) :
                  /\ posts[k].payload["disk_status"] = StrV("Unknown")
                  /\ \A id \in required_ids :
                        /\ posts[k].payload[NormKey(id)] = IntV(0)
                        /\ posts[k].payload[RawKey(id)] = IntV(0)

\* C3: whatever probes fail for a disk, every probe of that disk is invoked
\* and the assembly of its record raises nothing.
C3_FaultIsolation ==
    \A i \in 1..Len(hist) :
        Over(i) => /\ hist[i].invoked = DeviceProbes
                   /\ ~(pc = "crashed" /\ idx = i)

\* C4: the pass reaches its end, and at its end every enumerated disk has
\* exactly one write_csv call and exactly one send_metrics_to_server call.
C4_FullSweep ==
    /\ pc # "crashed"
    /\ pc = "done" =>
          \A i \in 1..Len(disks) :
              /\ Cardinality(CallsFor(writes, i)) = 1
              /\ Cardinality(CallsFor(posts, i)) = 1

\* C6: each record is handed to write_csv once and then to
\* send_metrics_to_server once, whatever the outcome of either call; a
\* failed append leaves the call of send_metrics_to_server to come, a
\* failed post leaves what was appended in place, and after the post the
\* loop is at a later disk.
C6_SinkIndependence ==
    /\ Len(writes) = Len(posts) + (IF pc = "send_metrics_to_server" THEN 1 ELSE 0)
    /\ \A k \in 1..Len(posts) :
          /\ posts[k].disk = writes[k].disk
          /\ posts[k].disk < idx
    /\ \A k \in 1..Len(writes) : CallsFor(writes, writes[k].disk) = {k}
    /\ Cardinality(Rows(csv)) = Cardinality({k \in 1..Len(writes) : writes[k].ok})

\* the append of the first disk failed, its record was posted all the same,
\* and the loop is at the second disk
C6_Witness ==
    /\ Len(writes) = 1 /\ ~writes[1].ok
    /\ Len(posts) = 1 /\ posts[1].disk = 1
    /\ pc = "get_smart_data" /\ idx = 2

\* C12: when every command of the pass printed what it prints on a healthy
\* host, so that iostat -x held the row  sda 12.3 4.0 204.8 51.2 0.5 1.2 0.05
\* 3.2  under the header Device r/s w/s rkB/s wkB/s r_await w_await aqu-sz
\* %util, every record handed to a sink has read_qps 12.3 (r/s), write_qps
\* 4.0 (w/s), read_throughput 204.8 (rkB/s), io_queue_size 0.05 (aqu-sz) and
\* disk_avg_util 3.2 (%util).
C12_IostatColumnsReachRecord ==
    LET Canned(record) ==
            /\ record["read_qps"] = FloatV(123, 1)
            /\ record["write_qps"] = FloatV(4, 0)
            /\ record["read_throughput"] = FloatV(2048, 1)
            /\ record["io_queue_size"] = FloatV(5, 2)
            /\ record["disk_avg_util"] = FloatV(32, 1)
    IN  (faults = 0 /\ ~outage) =>
           /\ pc \in {"write_csv", "send_metrics_to_server"} => Canned(metrics)
           /\ \A k \in 1..Len(posts) : Canned(posts[k].payload)

\* the record of the second disk is at write_csv after a pass without any
\* deviating run, and the record of the first disk was posted
C12_Witness ==
    /\ faults = 0 /\ ~outage
    /\ pc = "write_csv" /\ idx = 2
    /\ Len(posts) = 1
    /\ metrics["read_qps"] = FloatV(123, 1)
    /\ posts[1].payload["io_queue_size"] = FloatV(5, 2)

\* C13: every command is run under a timeout, so a command that hangs is
\* cancelled and its probe falls back to the default: the pass is never left
\* waiting for a command that does not exit, and so comes to its end
\* whichever command hangs.
C13_NoCommandBlocksThePass == pc # "hung"

\* C15: the header line and every row of the store have their columns in
\* the order of fieldnames: the 26 fixed columns first, then the SMART
\* columns by attribute id in ascending numeric order (1, 3, 4, 5, 7, 9, 10,
\* 12, 187, ..., not the order of the ids as text), smart_<id>_normalized
\* directly followed by smart_<id>_raw; a row holds in every column the
\* value its record has under the name of that column.
C15_ColumnsInFieldnamesOrder ==
    LET ids == <<"1", "3", "4", "5", "7", "9", "10", "12", "187", "188", "191",
                 "192", "193", "194", "198", "199">>
        \* the name expected in column i
        Columns ==
            [i \in 1..(26 + 2 * Len(ids)) |->
                IF i <= 26 THEN FixedFields[i]
                ELSE "smart_" \o ids[(i - 25) \div 2]
                              \o (IF (i - 26) % 2 = 1 THEN "_normalized" ELSE "_raw")]
        \* the write_csv calls that appended a row, in their order
        Appends == SelectSeq([k \in 1..Len(writes) |-> k], LAMBDA k : writes[k].ok)
        \* the record of the k-th write_csv call
        Record(k) == IF k <= Len(posts) THEN posts[k].payload ELSE metrics
        RowOf(j) == csv.lines[CHOOSE n \in Rows(csv) :
                                 Cardinality({m \in Rows(csv) : m <= n}) = j]
    IN  /\ \A n \in 1..Len(csv.lines) :
              /\ Len(csv.lines[n].cells) = Len(Columns)
              /\ csv.lines[n].kind = "header" =>
                    csv.lines[n].cells = [i \in 1..Len(Columns) |-> StrV(Columns[i])]
        /\ Len(Appends) = Cardinality(Rows(csv))
        /\ \A j \in 1..Len(Appends) :
              RowOf(j).cells =
                  [i \in 1..Len(Columns) |-> Record(Appends[j])[Columns[i]]]

\* the store holds the header and the row of the first disk, whose record is
\* about to be posted: smart_9_raw sits in column 38, just before the
\* columns of attribute 10, and attribute 187 follows attribute 12
C15_Witness ==
    /\ pc = "send_metrics_to_server"
    /\ Len(csv.lines) = 2
    /\ csv.lines[1].kind = "header"
    /\ csv.lines[1].cells[38] = StrV("smart_9_raw")
    /\ csv.lines[1].cells[39] = StrV("smart_10_normalized")
    /\ csv.lines[1].cells[43] = StrV("smart_187_normalized")
    /\ csv.lines[2].kind = "row"
    /\ csv.lines[2].cells[38] = metrics["smart_9_raw"]
    /\ csv.lines[2].cells[38] = IntV(1620)

\* C16: when `free -k` exits normally and prints no line that starts with
\* "Mem:" or its Russian counterpart, get_memory_summary yields its all-zero
\* mapping, so that once the probe has been invoked for a disk the record has
\* its mem_res (0 in that case) and the pass has not ended in an exception.
C16_MemorySummaryNeverMissing ==
    (idx \in 1..Len(hist) /\ "get_memory_summary" \in hist[idx].invoked) =>
        /\ pc # "crashed"
        /\ "mem_res" \in DOMAIN metrics
        /\ metrics["mem_res"].t \in {"int", "float"}

\* C17: in every record handed to the sinks a metric whose probe failed, or
\* whose tool output had no row for the device, holds its default: a number
\* (0 or 0.0) in the numeric fields io_queue_size, read_throughput,
\* read_queue_time, read_qps, write_qps, write_queue_time and
\* write_throughput, never a string or another placeholder, and a string in
\* disk_status.
C17_DefaultsAreNumbers ==
    LET Numeric == {"io_queue_size", "read_throughput", "read_queue_time",
                    "read_qps", "write_qps", "write_queue_time",
                    "write_throughput"}
        Typed(record) ==
            /\ \A f \in Numeric : record[f].t \in {"int", "float"}
            /\ record["disk_status"].t = "str"
    IN  /\ pc \in {"write_csv", "send_metrics_to_server"} => Typed(metrics)
        /\ \A k \in 1..Len(posts) : Typed(posts[k].payload)

\* C19: in every record handed to the sinks disk_max_util equals
\* disk_avg_util: get_disk_utilization is asked about the single device of
\* the record, so both are the %util of that device (3.2 in the canned
\* output), or both are 0 when the probe failed or found no row.
C19_MaxUtilIsAvgUtil ==
    LET Same(record) ==
            /\ record["disk_max_util"] = record["disk_avg_util"]
            /\ record["disk_max_util"] \in {FloatV(32, 1), IntV(0)}
    IN  /\ pc \in {"write_csv", "send_metrics_to_server"} => Same(metrics)
        /\ \A k \in 1..Len(posts) : Same(posts[k].payload)

\* a record whose two utilisation fields are the 3.2 of its device is at
\* write_csv, and the record posted before it had no row to read: both 0
C19_Witness ==
    /\ pc = "write_csv"
    /\ metrics["disk_max_util"] = FloatV(32, 1)
    /\ metrics["disk_avg_util"] = FloatV(32, 1)
    /\ Len(posts) = 1
    /\ posts[1].payload["disk_avg_util"] = IntV(0)

(***************************************************************************)
(* The probes on their own.  One input is drawn, the columns of an iostat  *)
(* table may be exchanged, and one probe is applied to the input.          *)
(***************************************************************************)
\* what `smartctl -H` may print besides the runs of the pass
StatusRuns ==
    {Nominal("smartctl -H")} \cup Deviants("smartctl -H") \cup
    {Run("oserror", <<>>),
     Run("ok", <<>>),
     Run("ok", <<"SMART overall-health self-assessment test result: FAILED!">>),
     Run("ok", <<"SMART Health Status: OK">>),
     Run("ok", <<"Time: 12:00",
                 "SMART overall-health self-assessment test result: PASSED">>)}

\* the tables smartctl may report: no attribute id is listed twice.  Of the
\* ids of the entries 5 and 9 are required and 17 is not; the entry of 194
\* has a raw object without "string", and the entry of 12 has no "raw" and
\* no "value".
SmartTables ==
    LET Tables(entries) ==
            {t \in UNION {[1..n -> entries] : n \in 1..MaxEntries} :
                \A i, j \in 1..Len(t) : i # j => t[i].id # t[j].id}
    IN  Tables({Entry(IntV(id), IntV(100), Raw(StrV(raw), IntV(7))) :
                   id \in {5, 9, 17}, raw \in {"1620 (176 116 0)", "abc", "36", ""}}
               \cup {Entry(IntV(194), IntV(64), Raw(Missing, IntV(36))),
                     Entry(IntV(12), Missing,
                           [present |-> FALSE, string |-> Missing, value |-> Missing])})

\* an iostat table as cells: the header and the rows, a row for every disk
\* (when own) and a row for the first partition of every disk, which prints
\* a decimal comma
Table(kind, own) ==
    LET DiskCell(i, c) == IntToStr(10 * i + c) \o ".5"
        PartitionCell(i, c) == IntToStr(100 + 10 * i + c) \o ",5"
        Cells(header) ==
            [kind |-> kind, own |-> own, swaps |-> 0, header |-> header,
             rows |->
                (IF own
                 THEN [i \in DiskNumbers |->
                          <<DiskName(i)>>
                          \o [c \in 1..(Len(header) - 1) |-> DiskCell(i, c)]]
                 ELSE <<>>)
                \o [i \in DiskNumbers |->
                       <<DiskName(i) \o "1">>
                       \o [c \in 1..(Len(header) - 1) |-> PartitionCell(i, c)]]]
    IN  Cells(split(IF kind = "x" THEN IostatHeader
                    ELSE "Device tps kB_read/s kB_wrtn/s kB_read kB_wrtn"))

\* what iostat prints for a table
TableRun(table) ==
    Run("ok", <<"Linux 5.15.0 (host)", "", Join(table.header)>>
              \o [i \in 1..Len(table.rows) |-> Join(table.rows[i])])

\* columns a and b of a line of cells exchanged
Exchanged(cells, a, b) ==
    [i \in 1..Len(cells) |->
        IF i = a THEN cells[b] ELSE IF i = b THEN cells[a] ELSE cells[i]]

ProbeInit ==
    /\ pc = "probe"
    /\ disks = <<>>
    /\ idx = 0
    /\ info = <<"", "">>
    /\ smart_data = [t |-> "None"]
    /\ metrics = EmptyDict
    /\ hist = <<>>
    /\ faults = 0
    /\ outage = FALSE
    /\ csv = Store(FALSE, <<>>)
    /\ writes = <<>>
    /\ posts = <<>>
    /\ res = NoArg
    /\ \/ \E run \in StatusRuns : arg = [fn |-> "get_disk_status", run |-> run]
       \/ \E table \in SmartTables :
             arg = [fn |-> "parse_smart_metrics", table |-> table]
       \/ \E kind \in {"x", "k"}, own \in BOOLEAN :
             arg = [fn |-> "iostat", table |-> Table(kind, own)]
       \/ \E value \in {"12.5", "12,5", "0.05", "0,05", "-3.5", "-3,5", "7",
                        ".5", ",5", " 12,5 ", "abc", "", "1.2.3", "1,2,3",
                        "1,5.2", "12;5"} :
             arg = [fn |-> "safe_float_conversion", value |-> value]
       \* a netstat probe and an output of `netstat -s`: up to MaxLines lines,
       \* each a section title or a counter line of the probe with an
       \* integer or another word in front; or the command fails
       \/ \E probe \in {"get_tcp_outsegs_netstat", "get_tcp_current_connections",
                        "get_udp_stat_netstat", "get_net_pps"} :
             LET markers ==
                     CASE probe = "get_tcp_outsegs_netstat" -> {"segments sent out"}
                       [] probe = "get_tcp_current_connections" ->
                            {"connections established"}
                       [] probe = "get_udp_stat_netstat" ->
                            {"datagrams sent", "datagrams received"}
                       [] OTHER -> {"packets received", "packets sent"}
             IN  \/ \E n \in 0..MaxLines :
                       \E lines \in [1..n -> {"Udp:"} \cup
                                              {lead \o m :
                                                  lead \in {"    5 ", "    8 ", "many  "},
                                                  m \in markers}] :
                           arg = [fn |-> probe, run |-> Run("ok", lines)]
                 \/ arg = [fn |-> probe, run |-> Failure]

\* what a step of a probe specification leaves alone
PassFrame ==
    UNCHANGED <<disks, idx, info, smart_data, metrics, hist, faults, outage,
                csv, writes, posts>>

\* two columns after Device change places, in the header and in every row
ExchangeColumns ==
    /\ pc = "probe"
    /\ arg.fn = "iostat"
    /\ arg.table.swaps < MaxSwaps
    /\ \E a, b \in 2..Len(arg.table.header) :
          /\ a < b
          /\ arg' = [arg EXCEPT
                        !.table.swaps = @ + 1,
                        !.table.header = Exchanged(@, a, b),
                        !.table.rows = [i \in 1..Len(@) |-> Exchanged(@[i], a, b)]]
    /\ UNCHANGED <<pc, res>>
    /\ PassFrame

\* the probe returns val
Return(val) ==
    /\ res' = val
    /\ pc' = "returned"
    /\ UNCHANGED arg
    /\ PassFrame

CallGetDiskStatus ==
    /\ pc = "probe"
    /\ arg.fn = "get_disk_status"
    /\ Return([fn |-> "get_disk_status", val |-> get_disk_status(arg.run)])

CallParseSmartMetrics ==
    /\ pc = "probe"
    /\ arg.fn = "parse_smart_metrics"
    /\ Return([fn |-> "parse_smart_metrics",
               val |-> parse_smart_metrics(Doc(TRUE, "table", arg.table),
                                           "WDC WD10EZEX", "WD-WCC6Y",
                                           required_ids)])

\* the input is an iostat table of the kind the probe reads
IostatInput(kind) == pc = "probe" /\ arg.fn = "iostat" /\ arg.table.kind = kind

\* the devices a probe is asked about, as the main block names them
ProbeDevices == {DiskName(i) : i \in DiskNumbers}

CallGetIoQueueSize ==
    /\ IostatInput("x")
    /\ \E d \in ProbeDevices :
          Return([fn |-> "get_io_queue_size", dev |-> d,
                  val |-> get_io_queue_size(<<d>>, TableRun(arg.table))])

CallGetReadSuccessThroughput ==
    /\ IostatInput("x")
    /\ \E d \in ProbeDevices :
          Return([fn |-> "get_read_success_throughput", dev |-> d,
                  val |-> get_read_success_throughput(<<d>>, "KB/s",
                                                      TableRun(arg.table))])

CallGetReadWorkItemQueueTime ==
    /\ IostatInput("x")
    /\ \E d \in ProbeDevices :
          Return([fn |-> "get_read_work_item_queue_time", dev |-> d,
                  val |-> get_read_work_item_queue_time(<<d>>, TableRun(arg.table))])

CallGetReadWorkItemSuccessQps ==
    /\ IostatInput("x")
    /\ \E d \in ProbeDevices :
          Return([fn |-> "get_read_work_item_success_qps", dev |-> d,
                  val |-> get_read_work_item_success_qps(<<d>>, TableRun(arg.table))])

CallGetWriteWorkItemSuccessQps ==
    /\ IostatInput("x")
    /\ \E d \in ProbeDevices :
          Return([fn |-> "get_write_work_item_success_qps", dev |-> d,
                  val |-> get_write_work_item_success_qps(<<d>>, TableRun(arg.table))])

CallGetWriteWorkItemQueueTime ==
    /\ IostatInput("x")
    /\ \E d \in ProbeDevices :
          Return([fn |-> "get_write_work_item_queue_time", dev |-> d,
                  val |-> get_write_work_item_queue_time(<<d>>, TableRun(arg.table))])

CallGetWriteSuccessThroughput ==
    /\ IostatInput("x")
    /\ \E d \in ProbeDevices :
          Return([fn |-> "get_write_success_throughput", dev |-> d,
                  val |-> get_write_success_throughput(<<d>>, "KB/s",
                                                       TableRun(arg.table))])

CallGetDiskUtilization ==
    /\ IostatInput("x")
    /\ \E d \in ProbeDevices :
          Return([fn |-> "get_disk_utilization", dev |-> d,
                  val |-> get_disk_utilization(<<d>>, TableRun(arg.table))])

CallGetTotalDiskReadWrite ==
    /\ IostatInput("k")
    /\ \E d \in ProbeDevices :
          Return([fn |-> "get_total_disk_read_write", dev |-> d,
                  val |-> get_total_disk_read_write(<<d>>, TableRun(arg.table))])

CallGetTcpOutsegsNetstat ==
    /\ pc = "probe"
    /\ arg.fn = "get_tcp_outsegs_netstat"
    /\ Return([fn |-> "get_tcp_outsegs_netstat",
               val |-> get_tcp_outsegs_netstat(arg.run)])

CallGetTcpCurrentConnections ==
    /\ pc = "probe"
    /\ arg.fn = "get_tcp_current_connections"
    /\ Return([fn |-> "get_tcp_current_connections",
               val |-> get_tcp_current_connections(arg.run)])

CallGetUdpStatNetstat ==
    /\ pc = "probe"
    /\ arg.fn = "get_udp_stat_netstat"
    /\ Return([fn |-> "get_udp_stat_netstat", val |-> get_udp_stat_netstat(arg.run)])

CallGetNetPps ==
    /\ pc = "probe"
    /\ arg.fn = "get_net_pps"
    /\ Return([fn |-> "get_net_pps", val |-> get_net_pps(arg.run)])

CallSafeFloatConversion ==
    /\ pc = "probe"
    /\ arg.fn = "safe_float_conversion"
    /\ Return([fn |-> "safe_float_conversion",
               val |-> safe_float_conversion(arg.value)])

ProbeNext ==
    \/ ExchangeColumns
    \/ CallSafeFloatConversion
    \/ CallGetTcpOutsegsNetstat \/ CallGetTcpCurrentConnections
    \/ CallGetUdpStatNetstat \/ CallGetNetPps
    \/ CallGetDiskStatus \/ CallParseSmartMetrics
    \/ CallGetIoQueueSize \/ CallGetReadSuccessThroughput
    \/ CallGetReadWorkItemQueueTime \/ CallGetReadWorkItemSuccessQps
    \/ CallGetWriteWorkItemSuccessQps \/ CallGetWriteWorkItemQueueTime
    \/ CallGetWriteSuccessThroughput \/ CallGetDiskUtilization
    \/ CallGetTotalDiskReadWrite

ProbeSpec == ProbeInit /\ [][ProbeNext]_vars

(***************************************************************************)
(* Properties of the probes.                                               *)
(***************************************************************************)
\* C7: get_disk_status returns the token after the last colon of the line
\* that holds the health marker, and the string "Unknown" in every other
\* case: when the command fails and when no line holds the marker.
C7_StatusTokenOrUnknown ==
    LET \* the lines of an output that hold the health marker
        MarkerLines(out) == {i \in 1..Len(out) : contains(out[i], HealthMarker)}
        Colons(line) == {i \in 1..Len(line) : Ch(line, i) = ":"}
        \* what follows the last colon of a line, without the blanks around it
        AfterLastColon(line) ==
            IF Colons(line) = {} THEN strip(line)
            ELSE strip(SubSeq(line,
                              1 + (CHOOSE i \in Colons(line) :
                                      \A j \in Colons(line) : j <= i),
                              Len(line)))
    IN  res.fn = "get_disk_status" =>
            res.val =
                IF arg.run.rc = "ok" /\ MarkerLines(arg.run.out) # {}
                THEN StrV(AfterLastColon(
                         arg.run.out[CHOOSE i \in MarkerLines(arg.run.out) :
                                        \A j \in MarkerLines(arg.run.out) : i <= j]))
                ELSE StrV("Unknown")

\* C8: for a table whose entries have string raw.string values,
\* parse_smart_metrics returns a record in which smart_<id>_raw of every
\* required id is the integer of the leading digits of raw.string, 0 when
\* there are none, and in which an id that is not required has no field.
C8_RawIsLeadingDigits ==
    (/\ res.fn = "parse_smart_metrics"
     /\ \A i \in 1..Len(arg.table) : arg.table[i].raw.string.t = "str") =>
        /\ ~res.val.raised
        /\ \A i \in 1..Len(arg.table) :
              IF str(arg.table[i].id) \in required_ids
              THEN /\ RawKey(str(arg.table[i].id)) \in DOMAIN res.val.val
                   /\ res.val.val[RawKey(str(arg.table[i].id))] =
                        IntV(DigitsValue(LeadingDigits(arg.table[i].raw.string.s), 0))
              ELSE /\ RawKey(str(arg.table[i].id)) \notin DOMAIN res.val.val
                   /\ NormKey(str(arg.table[i].id)) \notin DOMAIN res.val.val

\* the table lists attribute 9 with raw "1620 (176 116 0)" and attribute 5
\* with raw "abc": the record holds 1620 and 0 and the fields of no other
\* attribute
C8_Witness ==
    /\ res.fn = "parse_smart_metrics"
    /\ Len(arg.table) = 2
    /\ arg.table[1] = Entry(IntV(9), IntV(100),
                            Raw(StrV("1620 (176 116 0)"), IntV(7)))
    /\ arg.table[2] = Entry(IntV(5), IntV(100), Raw(StrV("abc"), IntV(7)))
    /\ res.val.val["smart_9_raw"] = IntV(1620)
    /\ res.val.val["smart_5_raw"] = IntV(0)
    /\ DOMAIN res.val.val =
          {"date", "serial_number", "model", "smart_9_normalized", "smart_9_raw",
           "smart_5_normalized", "smart_5_raw"}

\* the column a per-device probe of `iostat -x` reads
ColumnRead ==
    [get_io_queue_size |-> "aqu-sz",
     get_read_success_throughput |-> "rkB/s",
     get_read_work_item_queue_time |-> "r_await",
     get_read_work_item_success_qps |-> "r/s",
     get_write_work_item_success_qps |-> "w/s",
     get_write_work_item_queue_time |-> "w_await",
     get_write_success_throughput |-> "wkB/s"]

\* what probe fn returns for dev when rows of other names, among them the
\* rows of the partitions of dev, contribute nothing
FromOwnRows(fn, table, dev) ==
    LET \* the rows whose first cell is exactly dev
        OwnRows == {i \in 1..Len(table.rows) : table.rows[i][1] = dev}
        \* the cell of row i under the header cell named column
        CellUnder(i, column) ==
            table.rows[i][CHOOSE c \in 1..Len(table.header) : table.header[c] = column]
        \* the dictionary of a per-device probe
        OwnColumn(column) ==
            [d \in {table.rows[i][1] : i \in OwnRows} |->
                safe_float_conversion(CellUnder(CHOOSE i \in OwnRows : TRUE, column))]
        \* the number a probe adds up or averages (a table lists a device once)
        OwnNumber(column) ==
            IF OwnRows = {} THEN IntV(0)
            ELSE safe_float_conversion(CellUnder(CHOOSE i \in OwnRows : TRUE, column))
    IN
    CASE fn = "get_disk_utilization" ->
            UtilDict(OwnNumber("%util"), OwnNumber("%util"))
      [] fn = "get_total_disk_read_write" ->
            TotalsDict(OwnNumber("kB_read"), OwnNumber("kB_wrtn"))
      [] OTHER -> OwnColumn(ColumnRead[fn])

IostatProbes == (DOMAIN ColumnRead) \cup {"get_disk_utilization", "get_total_disk_read_write"}

\* C9: every iostat probe returns for a device what the rows whose first
\* token is exactly the device name give; a row of sda1 contributes nothing
\* to the result for sda.
C9_ExactDeviceMatch ==
    res.fn \in IostatProbes => res.val = FromOwnRows(res.fn, arg.table, res.dev)

\* the table has a row of sda (%util 18.5) and a row of sda1 (%util
\* 118,5), and the utilization of sda is 18.5, maximum and average
C9_Witness ==
    /\ res.fn = "get_disk_utilization"
    /\ res.dev = "sda"
    /\ arg.table.swaps = 0
    /\ \E i \in 1..Len(arg.table.rows) : arg.table.rows[i][1] = "sda"
    /\ \E i \in 1..Len(arg.table.rows) : arg.table.rows[i][1] = "sda1"
    /\ res.val = UtilDict(FloatV(185, 1), FloatV(185, 1))

\* the probe fn applied to the output iostat prints for a table
ValueOn(fn, dev, table) ==
    CASE fn = "get_io_queue_size" -> get_io_queue_size(<<dev>>, TableRun(table))
      [] fn = "get_read_success_throughput" ->
            get_read_success_throughput(<<dev>>, "KB/s", TableRun(table))
      [] fn = "get_read_work_item_queue_time" ->
            get_read_work_item_queue_time(<<dev>>, TableRun(table))
      [] fn = "get_read_work_item_success_qps" ->
            get_read_work_item_success_qps(<<dev>>, TableRun(table))
      [] fn = "get_write_work_item_success_qps" ->
            get_write_work_item_success_qps(<<dev>>, TableRun(table))
      [] fn = "get_write_work_item_queue_time" ->
            get_write_work_item_queue_time(<<dev>>, TableRun(table))
      [] fn = "get_write_success_throughput" ->
            get_write_success_throughput(<<dev>>, "KB/s", TableRun(table))
      [] fn = "get_disk_utilization" -> get_disk_utilization(<<dev>>, TableRun(table))
      [] OTHER -> get_total_disk_read_write(<<dev>>, TableRun(table))

\* C10: with the columns after Device exchanged in the header and in every
\* row alike, every iostat probe returns what it returns for the table in
\* its usual column order.
C10_ColumnOrderIndependence ==
    res.fn \in IostatProbes =>
        res.val = ValueOn(res.fn, res.dev, Table(arg.table.kind, arg.table.own))

\* aqu-sz has left its usual place, the eighth, and the queue size of sdb is
\* still the cell under aqu-sz
C10_Witness ==
    /\ res.fn = "get_io_queue_size"
    /\ res.dev = "sdb"
    /\ arg.table.own
    /\ arg.table.swaps = 1
    /\ arg.table.header[8] # "aqu-sz"
    /\ res.val = [d \in {"sdb"} |-> FloatV(275, 1)]

\* C18: for a required entry without raw.string parse_smart_metrics takes
\* raw.value, and 0 for an entry without raw; in both cases it returns
\* normally, smart_<id>_raw is that integer and smart_<id>_normalized is the
\* entry's value, 0 when the entry has none.
C18_RawValueWhenNoString ==
    res.fn = "parse_smart_metrics" =>
        \A i \in 1..Len(arg.table) :
            LET attr == arg.table[i]
            IN  (str(attr.id) \in required_ids /\ attr.raw.string = Missing) =>
                    /\ ~res.val.raised
                    /\ res.val.val[RawKey(str(attr.id))] =
                          (IF attr.raw.present THEN attr.raw.value ELSE IntV(0))
                    /\ res.val.val[NormKey(str(attr.id))] =
                          (IF attr.value = Missing THEN IntV(0) ELSE attr.value)

\* C11: safe_float_conversion yields the number a token denotes when the token
\* is a number written with a decimal point, the same number when the token
\* is written with a decimal comma in place of the point, and 0.0 when the
\* token is a number under neither reading; the result is always a float.
C11_DecimalPointOrComma ==
    LET \* the tokens that denote a number, each with its point and its comma
        \* spelling and the number as mantissa and count of decimals
        Numbers == {<<"12.5", "12,5", 125, 1>>, <<"0.05", "0,05", 5, 2>>,
                    <<"-3.5", "-3,5", 0 - 35, 1>>, <<".5", ",5", 5, 1>>,
                    <<"7", "7", 7, 0>>, <<" 12.5 ", " 12,5 ", 125, 1>>}
        Spellings == {n[1] : n \in Numbers} \cup {n[2] : n \in Numbers}
    IN  (pc = "returned" /\ res.fn = "safe_float_conversion") =>
           /\ res.val.t = "float"
           /\ \A n \in Numbers :
                 arg.value \in {n[1], n[2]} => res.val = FloatV(n[3], n[4])
           /\ arg.value \notin Spellings => res.val = FloatV(0, 0)

\* a token with a decimal comma has been converted to the number it denotes
C11_Witness ==
    /\ pc = "returned"
    /\ res.fn = "safe_float_conversion"
    /\ arg.value = "12,5"
    /\ res.val = FloatV(125, 1)

\* C20: of several netstat lines that hold the same marker, tcp_outsegs and
\* tcp_currestab take the leading integer of the first and the datagram and
\* packet counters take that of the last; a counter without a line is 0;
\* and when a line holding a marker of a pair does not start with an
\* integer, both counters of the pair are 0.  (For tcp_outsegs and
\* tcp_currestab a first line that does not start with an integer gives 0.)
C20_FirstOrLastMatchingLine ==
    LET out == arg.run.out
        \* the integer in front of a line of the output, -1 when the line
        \* starts with another word
        Lead(line) ==
            CASE SubSeq(line, 1, 6) = "    5 " -> 5
              [] SubSeq(line, 1, 6) = "    8 " -> 8
              [] OTHER -> 0 - 1
        Holds(marker) ==
            {i \in 1..Len(out) :
                Len(out[i]) > 6 /\ SubSeq(out[i], 7, Len(out[i])) = marker}
        First(marker) ==
            IF Holds(marker) = {} THEN IntV(0)
            ELSE LET at == CHOOSE i \in Holds(marker) : \A j \in Holds(marker) : i <= j
                 IN  IF Lead(out[at]) < 0 THEN IntV(0) ELSE IntV(Lead(out[at]))
        Last(marker) ==
            IF Holds(marker) = {} THEN IntV(0)
            ELSE LET at == CHOOSE i \in Holds(marker) : \A j \in Holds(marker) : j <= i
                 IN  IntV(Lead(out[at]))
        Pair(a, b) ==
            IF \E i \in Holds(a) \cup Holds(b) : Lead(out[i]) < 0
            THEN <<IntV(0), IntV(0)>>
            ELSE <<Last(a), Last(b)>>
    IN  (/\ pc = "returned"
         /\ res.fn \in {"get_tcp_outsegs_netstat", "get_tcp_current_connections",
                        "get_udp_stat_netstat", "get_net_pps"}
         /\ arg.run.rc = "ok") =>
           /\ res.fn = "get_tcp_outsegs_netstat" =>
                 res.val = First("segments sent out")
           /\ res.fn = "get_tcp_current_connections" =>
                 res.val = First("connections established")
           /\ res.fn = "get_udp_stat_netstat" =>
                 res.val = Pair("datagrams sent", "datagrams received")
           /\ res.fn = "get_net_pps" =>
                 res.val = Pair("packets received", "packets sent")

\* two lines hold "datagrams sent" and the probe has returned the counter of
\* the second
C20_Witness ==
    /\ pc = "returned"
    /\ res.fn = "get_udp_stat_netstat"
    /\ arg.run.out = <<"    5 datagrams sent", "    8 datagrams sent",
                       "    5 datagrams received">>
    /\ res.val = <<IntV(8), IntV(5)>>

(***************************************************************************)
(* The store on its own: write_csv called again and again on a file that   *)
(* starts empty.                                                           *)
(***************************************************************************)
StoreInit ==
    /\ pc = "store"
    /\ disks = <<>>
    /\ idx = 0
    /\ info = <<"", "">>
    /\ smart_data = [t |-> "None"]
    /\ metrics = EmptyDict
    /\ hist = <<>>
    /\ faults = 0
    /\ outage = FALSE
    \* an empty store: the file does not exist, or it exists and holds nothing
    /\ csv \in {Store(FALSE, <<>>), Store(TRUE, <<>>)}
    /\ writes = <<>>
    /\ posts = <<>>
    /\ arg = NoArg
    /\ res = NoArg

\* one call of write_csv with the complete record of one of two disks
StoreWrite ==
    /\ pc = "store"
    /\ Len(writes) < MaxWrites
    /\ \E record \in {BackFilled(DictPut(EmptyDict, "serial_number", StrV(serial)),
                                 fieldnames) : serial \in {"WD-WCC6Y", "WD-WCC7Z"}},
          fault \in {"none"} \cup (IF faults < MaxFaults THEN CsvFaults ELSE {}) :
          /\ faults' = faults + (IF fault = "none" THEN 0 ELSE 1)
          /\ \E r \in {write_csv(record, fieldnames, csv, fault)} :
                /\ csv' = r.csv
                /\ writes' = Append(writes, [disk |-> 0, ok |-> r.ok])
    /\ UNCHANGED <<pc, disks, idx, info, smart_data, metrics, hist, outage,
                   posts, arg, res>>

StoreSpec == StoreInit /\ [][StoreWrite]_vars

\* the workers of a deployment that runs write_csv concurrently: arg.at[w] is
\* where worker w stands in its call and arg.file_exists[w] is what its
\* os.path.isfile returned.  The store does not exist yet, or holds its
\* header line.
WorkersInit ==
    /\ pc = "workers"
    /\ disks = <<>>
    /\ idx = 0
    /\ info = <<"", "">>
    /\ smart_data = [t |-> "None"]
    /\ metrics = EmptyDict
    /\ hist = <<>>
    /\ faults = 0
    /\ outage = FALSE
    /\ csv \in {Store(FALSE, <<>>), Store(TRUE, <<HeaderLine(fieldnames)>>)}
    /\ writes = <<>>
    /\ posts = <<>>
    /\ \E n \in 2..MaxWorkers :
          arg = [at |-> [w \in 1..n |-> "isfile"],
                 file_exists |-> [w \in 1..n |-> FALSE]]
    /\ res = NoArg

\* one step of the write_csv call of a worker; nothing in write_csv keeps
\* another worker from stepping in between (no lock, no exclusive open).
\* The lines a worker writes sit in the buffer of its file object and reach
\* the file, opened for append, when the `with` block closes it.
WriteCsvStep ==
    /\ pc = "workers"
    /\ \E w \in DOMAIN arg.at :
          LET record == BackFilled(DictPut(EmptyDict, "serial_number",
                                           StrV("WD-" \o IntToStr(w))),
                                   fieldnames)
          IN  \/ \* file_exists = os.path.isfile(csv_file)
                 /\ arg.at[w] = "isfile"
                 /\ arg' = [arg EXCEPT !.at[w] = "open",
                                       !.file_exists[w] = csv.exists]
                 /\ UNCHANGED <<csv, writes>>
              \/ \* open(csv_file, 'a', newline=''): creates the file
                 /\ arg.at[w] = "open"
                 /\ arg' = [arg EXCEPT !.at[w] = "write"]
                 /\ csv' = Store(TRUE, csv.lines)
                 /\ UNCHANGED writes
              \/ \* writeheader() if not file_exists, writerow(metrics), close
                 /\ arg.at[w] = "write"
                 /\ arg' = [arg EXCEPT !.at[w] = "done"]
                 /\ csv' = write_csv(record, fieldnames,
                                     Store(arg.file_exists[w], csv.lines), "none").csv
                 /\ writes' = Append(writes, [disk |-> w, ok |-> TRUE])
    /\ UNCHANGED <<pc, disks, idx, info, smart_data, metrics, hist, faults,
                   outage, posts, res>>

WorkersSpec == WorkersInit /\ [][WriteCsvStep]_vars

\* C14: when two or more workers call write_csv at the same time on one
\* store (a store that does not exist yet included), the result is that of
\* the calls made one after another: once all calls have returned the store
\* holds exactly one header line and one row for the record of every worker.
C14_AppendsAsIfSerialized ==
    (pc = "workers" /\ \A w \in DOMAIN arg.at : arg.at[w] = "done") =>
        /\ Cardinality({k \in 1..Len(csv.lines) : csv.lines[k].kind = "header"}) = 1
        /\ \A w \in DOMAIN arg.at :
              Cardinality({k \in Rows(csv) :
                              csv.lines[k].cells[IndexOf(fieldnames, "serial_number")]
                                  = StrV("WD-" \o IntToStr(w))}) = 1

\* C5: after N >= 1 calls of write_csv on a store that was empty, all of
\* them successful, the file holds one header line and then N data lines.
C5_HeaderOnce ==
    (pc = "store" /\ Len(writes) >= 1 /\ \A k \in 1..Len(writes) : writes[k].ok) =>
        /\ Len(csv.lines) = Len(writes) + 1
        /\ csv.lines[1].kind = "header"
        /\ \A k \in 2..Len(csv.lines) : csv.lines[k].kind = "row"

=============================================================================
